---- MODULE Spec2Model ----
(***************************************************************************)
(* Model of the terminology mapping service:                               *)
(*   - TerminologyService.batch_map_terms, the chunked batch driver        *)
(*     (backend/api/v1/services/terminology_service.py)                    *)
(*   - ThreadSafeTerminologyMapper.map_term, the per-vocabulary dispatcher *)
(*     (backend/api/v1/services/thread_safe_mapper.py)                     *)
(*                                                                         *)
(*   - FuzzyMatcher, the local matcher and its synonym store               *)
(*     (backend/app/standards/terminology/fuzzy_matcher.py)                *)
(*                                                                         *)
(* Confidences are fixed-point numbers in ten-thousandths: 10000 stands    *)
(* for 1.0 and 6000 for 0.6.  Scores of the fuzzy library and of the local *)
(* matcher are kept in tenths of a point: 1000 stands for a score of 100,  *)
(* so that score / 100 is score * 10 and score / 1000 is score.            *)
(***************************************************************************)
EXTENDS Integers, Sequences, FiniteSets, TLC

VARIABLES
    \* ---- batch_map_terms ----
    terms,              \* input: the list of terms
    min_confidence,     \* input: the post-filter threshold (ten-thousandths)
    pc,                 \* position in batch_map_terms
    i,                  \* loop variable of `for i in range(0, len(terms), batch_size)`
    tasks,              \* terms of the coroutines handed to gather, in order
    batch_results,      \* gather's result slots, one per task
    results,            \* accumulated raw outcomes
    formatted_results,  \* the returned list
    lookups,            \* history: per position of terms, the lookup made for it
    sleeps,             \* history: number of inter-chunk delays slept
    cancelled_at,       \* history: number of lookups started when the call was cancelled
    \* ---- ThreadSafeTerminologyMapper.map_term ----
    term,                   \* input: the term
    systems,                \* input, then the normalised list of lines 73-74
    max_results_per_system, \* input
    external_service,       \* whether mapper.external_service is set
    mpc,                    \* position in map_term
    sys_idx,                \* position of the `for system in systems` loop
    system_results,         \* rows of the system being processed
    all_results,            \* the returned map
    calls,                  \* history: per loop position, what was called and what it gave
    \* ---- FuzzyMatcher ----
    synonyms_path,      \* config: whether "synonyms_path" is set
    synonyms_file,      \* the synonyms file on disk
    synonyms,           \* self.synonyms
    initialized,        \* whether initialize has run
    term_index,         \* self.term_index: system -> key -> {code, display}
    term_lists,         \* self.term_lists: system -> rows
    fm_op,              \* history: the last call made on the matcher and its answer
    fm_rerun,           \* history: the answer of the last query when made once more
    fm_count,           \* history: number of calls made
    fm_builds,          \* the databases: how the _build_index call of each system ends
    \* ---- ThreadSafeTerminologyMapper._get_mapper under threads ----
    th_pc,              \* per thread: position in _get_mapper
    th_calls,           \* history: per thread, number of _get_mapper calls begun
    lock,               \* self._lock: the thread that holds it
    local_mapper,       \* self._local.mapper, per thread
    th_created,         \* history: per thread, the instances constructed in it
    th_returned,        \* history: per thread, the instances _get_mapper returned
    mapper_synonyms,    \* per thread: self.synonyms of the matcher of its mapper
    th_file,            \* the synonyms file the matchers share
    th_add,             \* history: the add_synonym call made, if any
    \* ---- FuzzyMatcher.add_synonym called by several threads on one matcher ----
    w_pc,               \* per thread: position in add_synonym
    w_key,              \* per thread: the local new_key
    w_result            \* history: per thread, what add_synonym returned

batchVars == <<terms, min_confidence, pc, i, tasks, batch_results, results,
               formatted_results, lookups, sleeps, cancelled_at>>

mapVars == <<term, systems, max_results_per_system, external_service, mpc, sys_idx,
             system_results, all_results, calls>>

matcherVars == <<synonyms_path, synonyms_file, synonyms, initialized, term_index,
                 term_lists, fm_op, fm_rerun, fm_count, fm_builds>>

threadVars == <<th_pc, th_calls, lock, local_mapper, th_created, th_returned,
                mapper_synonyms, th_file, th_add>>

writerVars == <<w_pc, w_key, w_result>>

vars == <<batchVars, mapVars, matcherVars, threadVars, writerVars>>

\* ------------------------------------------------------------------------
\* Bounds of the model
\* ------------------------------------------------------------------------
MaxTerms == 7
MaxApiRows == 2

\* ------------------------------------------------------------------------
\* Program constants
\* ------------------------------------------------------------------------
batch_size == 5
ErrorMsgLimit == 200

Min(a, b) == IF a < b THEN a ELSE b

\* ------------------------------------------------------------------------
\* Values
\* ------------------------------------------------------------------------
TermNames == <<"mi", "htn", "ra">>

\* The input lists: length n, the names cycling, so a list holds repeated
\* terms within a chunk and across chunks.
TermList(n) == [k \in 1..n |-> TermNames[((k - 1) % Len(TermNames)) + 1]]

Row(code, conf) == [code |-> code, confidence |-> conf]

\* Result maps a single-term lookup may return: vocabulary -> rows.
EmptyMap == <<>>
LowOnlyMap == [s \in {"loinc"} |-> <<Row("L1", 4500)>>]
MixedMap == [s \in {"snomed", "loinc"} |->
                IF s = "snomed" THEN <<Row("S1", 8500), Row("S2", 6000), Row("S3", 5990)>>
                                ELSE <<Row("L1", 4500)>>]
ResultMaps == {EmptyMap, LowOnlyMap, MixedMap}

Pending == [kind |-> "pending"]
Unstarted == [kind |-> "unstarted"]
Returned(m) == [kind |-> "ok", value |-> m]
Raised(len) == [kind |-> "exception", msg |-> len]

\* What one self.map_term coroutine can deliver to gather: a result map, or
\* an exception whose message has the given length.
ExceptionMsgLens == {250}
LookupOutcomes == {Returned(m) : m \in ResultMaps} \cup {Raised(l) : l \in ExceptionMsgLens}

MinConfidences == {6000, 10000}

\* ------------------------------------------------------------------------
\* batch_map_terms
\* ------------------------------------------------------------------------
\* Variant: gather without return_exceptions.
return_exceptions_off == FALSE

\* asyncio.gather(*tasks, return_exceptions=True)
return_exceptions == TRUE

\* terms[i:i + batch_size]
BatchTerms(ts, off) == SubSeq(ts, off + 1, Min(off + batch_size, Len(ts)))

\* Variant: the filter keeps only rows strictly above the threshold.
RECURSIVE FilterMappings_strict(_, _)
FilterMappings_strict(mappings, minc) ==
    IF mappings = <<>> THEN <<>>
    ELSE LET rest == FilterMappings_strict(Tail(mappings), minc)
         IN IF Head(mappings).confidence > minc THEN <<Head(mappings)>> \o rest ELSE rest

\* [m for m in mappings if m.get("confidence", 0) >= min_confidence]
RECURSIVE FilterMappings(_, _)
FilterMappings(mappings, minc) ==
    IF mappings = <<>> THEN <<>>
    ELSE LET rest == FilterMappings(Tail(mappings), minc)
         IN IF Head(mappings).confidence >= minc THEN <<Head(mappings)>> \o rest ELSE rest

\* filtered_result: only the systems whose filtered list is non-empty
FilterResult(result, minc) ==
    LET kept == {s \in DOMAIN result : FilterMappings(result[s], minc) # <<>>}
    IN [s \in kept |-> FilterMappings(result[s], minc)]

RECURSIVE SumLen(_, _)
SumLen(m, dom) ==
    IF dom = {} THEN 0
    ELSE LET s == CHOOSE x \in dom : TRUE IN Len(m[s]) + SumLen(m, dom \ {s})

\* Variant: the status is taken from the unfiltered mapping count (the count
\* that line 137 logs) instead of the filtered one.
FormatOne_unfiltered(t, result, minc) ==
    IF result.kind = "exception"
    THEN [term |-> t, results |-> <<>>, error |-> Min(result.msg, ErrorMsgLimit),
          status |-> "failed"]
    ELSE LET filtered_result == FilterResult(result.value, minc)
             total_mappings == SumLen(result.value, DOMAIN result.value)
         IN [term |-> t, results |-> filtered_result,
             status |-> IF total_mappings > 0 THEN "success" ELSE "no_mappings"]

\* One iteration of the formatting loop over zip(terms, results)
FormatOne(t, result, minc) ==
    IF result.kind = "exception"
    THEN [term |-> t, results |-> <<>>, error |-> Min(result.msg, ErrorMsgLimit),
          status |-> "failed"]
    ELSE LET filtered_result == FilterResult(result.value, minc)
             total_mappings == SumLen(filtered_result, DOMAIN filtered_result)
         IN [term |-> t, results |-> filtered_result,
             status |-> IF total_mappings > 0 THEN "success" ELSE "no_mappings"]

\* zip stops at the shorter of its two arguments
FormatResults(ts, rs, minc) ==
    [k \in 1..Min(Len(ts), Len(rs)) |-> FormatOne(ts[k], rs[k], minc)]

\* The dispatcher at rest (no map_term call is modelled in this specification)
MapIdle ==
    /\ term = <<>>
    /\ systems = <<>>
    /\ max_results_per_system = 0
    /\ external_service = FALSE
    /\ mpc = "idle"
    /\ sys_idx = 0
    /\ system_results = <<>>
    /\ all_results = <<>>
    /\ calls = <<>>

NotCancelled == -1

\* The batch driver at rest (no batch is modelled in that specification)
BatchIdle ==
    /\ terms = <<>>
    /\ min_confidence = 0
    /\ pc = "idle"
    /\ i = 0
    /\ tasks = <<>>
    /\ batch_results = <<>>
    /\ results = <<>>
    /\ formatted_results = <<>>
    /\ lookups = <<>>
    /\ sleeps = 0
    /\ cancelled_at = NotCancelled

\* The matcher at rest (no matcher is modelled in that specification)
NoFile == [kind |-> "missing"]
NoOp == [op |-> "none"]

MatcherIdle ==
    /\ synonyms_path = FALSE
    /\ synonyms_file = NoFile
    /\ synonyms = <<>>
    /\ initialized = FALSE
    /\ term_index = <<>>
    /\ term_lists = <<>>
    /\ fm_op = NoOp
    /\ fm_rerun = NoOp
    /\ fm_count = 0
    /\ fm_builds = <<>>

\* No worker thread (no thread is modelled in that specification)
ThreadsIdle ==
    /\ th_pc = <<>>
    /\ th_calls = <<>>
    /\ lock = 0
    /\ local_mapper = <<>>
    /\ th_created = <<>>
    /\ th_returned = <<>>
    /\ mapper_synonyms = <<>>
    /\ th_file = NoFile
    /\ th_add = NoOp

\* No thread inside add_synonym
WritersIdle ==
    /\ w_pc = <<>>
    /\ w_key = <<>>
    /\ w_result = <<>>

InitBatch ==
    /\ \E n \in 0..MaxTerms : terms = TermList(n)
    /\ min_confidence \in MinConfidences
    /\ pc = "loop"
    /\ i = 0
    /\ tasks = <<>>
    /\ batch_results = <<>>
    /\ results = <<>>
    /\ formatted_results = <<>>
    /\ lookups = [k \in 1..Len(terms) |-> [term |-> "", outcome |-> Unstarted]]
    /\ sleeps = 0
    /\ cancelled_at = NotCancelled
    /\ MapIdle
    /\ MatcherIdle
    /\ ThreadsIdle
    /\ WritersIdle

\* Lines 109-130: build the chunk's coroutines and hand them to gather.
StartChunk ==
    /\ pc = "loop"
    /\ i < Len(terms)
    /\ tasks' = BatchTerms(terms, i)
    /\ batch_results' = [j \in 1..Len(tasks') |-> Pending]
    /\ lookups' = [k \in DOMAIN lookups |->
                     IF k > i /\ k <= i + Len(tasks')
                     THEN [term |-> tasks'[k - i], outcome |-> Pending]
                     ELSE lookups[k]]
    /\ pc' = "gather"
    /\ UNCHANGED <<terms, min_confidence, i, results, formatted_results, sleeps, cancelled_at, mapVars, matcherVars, threadVars, writerVars>>

\* One in-flight lookup (self.map_term, lines 29-73) returns or raises;
\* gather(return_exceptions=True) stores the outcome in the task's slot.
\* With return_exceptions=False the first exception would leave gather and
\* the outer handler (lines 202-204) would re-raise it: the batch is aborted.
LookupCompletes ==
    /\ pc = "gather"
    /\ \E j \in DOMAIN batch_results :
         /\ batch_results[j] = Pending
         /\ \E o \in LookupOutcomes :
              /\ batch_results' = [batch_results EXCEPT ![j] = o]
              /\ lookups' = [lookups EXCEPT ![i + j].outcome = o]
              /\ pc' = IF o.kind = "exception" /\ ~return_exceptions THEN "raised" ELSE pc
    /\ UNCHANGED <<terms, min_confidence, i, tasks, results, formatted_results, sleeps, cancelled_at, mapVars, matcherVars, threadVars, writerVars>>

AllDone(br) == \A j \in DOMAIN br : br[j] # Pending

\* Variant: results = batch_results
ExtendResults_overwrite(rs, br) == br

\* results.extend(batch_results)
ExtendResults(rs, br) == rs \o br

\* Variant: the delay test is off by one.
NeedsDelay_inclusive(off, n) == off + batch_size <= n

\* if i + batch_size < len(terms): sleep
NeedsDelay(off, n) == off + batch_size < n

\* Lines 130-152: gather returns, results.extend(batch_results); then either
\* the inter-chunk delay or the next iteration.
GatherReturns ==
    /\ pc = "gather"
    /\ AllDone(batch_results)
    /\ results' = ExtendResults(results, batch_results)
    /\ IF NeedsDelay(i, Len(terms))
       THEN /\ pc' = "sleep"
            /\ i' = i
       ELSE /\ pc' = "loop"
            /\ i' = i + batch_size
    /\ UNCHANGED <<terms, min_confidence, tasks, batch_results, formatted_results,
                   lookups, sleeps, cancelled_at, mapVars, matcherVars, threadVars, writerVars>>

\* Line 152: await asyncio.sleep(delay_between_batches)
SleepElapses ==
    /\ pc = "sleep"
    /\ sleeps' = sleeps + 1
    /\ i' = i + batch_size
    /\ pc' = "loop"
    /\ UNCHANGED <<terms, min_confidence, tasks, batch_results, results,
                   formatted_results, lookups, cancelled_at, mapVars, matcherVars, threadVars, writerVars>>

\* Lines 154-200: the loop is exhausted; format and return.
FormatAndReturn ==
    /\ pc = "loop"
    /\ i >= Len(terms)
    /\ formatted_results' = FormatResults(terms, results, min_confidence)
    /\ pc' = "done"
    /\ UNCHANGED <<terms, min_confidence, i, tasks, batch_results, results,
                   lookups, sleeps, cancelled_at, mapVars, matcherVars, threadVars, writerVars>>

NextBatch ==
    \/ StartChunk
    \/ LookupCompletes
    \/ GatherReturns
    \/ SleepElapses
    \/ FormatAndReturn

SpecBatch == InitBatch /\ [][NextBatch]_vars

\* The positions of terms whose lookup has been started
Started == {k \in DOMAIN lookups : lookups[k].outcome # Unstarted}

\* Variant: the cancellation is swallowed and the call goes on.
CancellationLeaves_off == FALSE

\* Lines 202-204: the only handler around the loop is `except Exception`,
\* which re-raises; an asyncio.CancelledError raised at an await leaves the
\* call.
CancellationLeaves == TRUE

\* The task running batch_map_terms is cancelled while it is suspended at
\* `await asyncio.gather(...)` (line 130) or `await asyncio.sleep(...)` (line
\* 152): CancelledError is raised there.
Cancel ==
    /\ pc \in {"gather", "sleep"}
    /\ cancelled_at = NotCancelled
    /\ cancelled_at' = Cardinality(Started)
    /\ pc' = IF CancellationLeaves THEN "cancelled" ELSE pc
    /\ UNCHANGED <<terms, min_confidence, i, tasks, batch_results, results,
                   formatted_results, lookups, sleeps, mapVars, matcherVars, threadVars, writerVars>>

NextCancel ==
    \/ NextBatch
    \/ Cancel

SpecCancel == InitBatch /\ [][NextCancel]_vars

\* ------------------------------------------------------------------------
\* Properties of batch_map_terms (checked under SpecBatch)
\* ------------------------------------------------------------------------
Completed(o) == o.kind \in {"ok", "exception"}

\* The chunk (0-based) of a position of terms
ChunkOf(k) == (k - 1) \div batch_size

\* Number of chunks of a list of n terms
NumChunks(n) == (n + batch_size - 1) \div batch_size

\* Rows of result map m at or above the threshold, as (system, index) pairs
RowsRemaining(m, minc) ==
    UNION {{<<s, x>> : x \in {y \in 1..Len(m[s]) : m[s][y].confidence >= minc}} :
              s \in DOMAIN m}

\* C1: the returned list has the length of terms; its k-th entry names
\* terms[k] and carries the outcome of the lookup that was started for
\* position k with term terms[k] (nothing dropped, duplicated or shifted).
C1_OrderAndLength ==
    pc = "done" =>
        /\ Len(formatted_results) = Len(terms)
        /\ \A k \in 1..Len(terms) :
             /\ formatted_results[k].term = terms[k]
             /\ lookups[k].term = terms[k]
             /\ Completed(lookups[k].outcome)
             /\ IF lookups[k].outcome.kind = "exception"
                THEN /\ formatted_results[k].status = "failed"
                     /\ formatted_results[k].results = <<>>
                ELSE /\ formatted_results[k].status # "failed"
                     /\ formatted_results[k].results =
                            FilterResult(lookups[k].outcome.value, min_confidence)

C1_Witness ==
    /\ pc = "done"
    /\ Len(terms) = 7
    /\ lookups[2].outcome.kind = "exception"
    /\ lookups[3].outcome = Returned(MixedMap)
    /\ lookups[6].outcome = Returned(MixedMap)
    /\ lookups[7].outcome = Returned(EmptyMap)
    /\ Len(formatted_results) = 7

\* C2: a lookup that raises never aborts the batch: the term is emitted as
\* failed with an error string of at most 200 characters, every term of the
\* same chunk and of the later chunks is still looked up, and each is emitted
\* with the result its own outcome gives.
C2_FailureIsolated ==
    /\ pc # "raised"
    /\ pc = "done" =>
         \A k \in 1..Len(terms) :
            /\ Completed(lookups[k].outcome)
            /\ k \in DOMAIN formatted_results
            /\ lookups[k].outcome.kind = "exception" =>
                 /\ formatted_results[k].status = "failed"
                 /\ formatted_results[k].error = Min(lookups[k].outcome.msg, ErrorMsgLimit)
                 /\ formatted_results[k].error <= ErrorMsgLimit
            /\ lookups[k].outcome.kind = "ok" =>
                 formatted_results[k] =
                     FormatOne(terms[k], lookups[k].outcome, min_confidence)

C2_Witness ==
    /\ pc = "done"
    /\ Len(terms) = 7
    /\ lookups[1].outcome.kind = "exception"
    /\ formatted_results[1].status = "failed"
    /\ formatted_results[2].status = "success"
    /\ formatted_results[6].status = "success"
    /\ formatted_results[7].status = "no_mappings"

\* C3: the status of every emitted term is failed exactly when its lookup
\* raised, no_mappings exactly when it returned and no row is at or above
\* min_confidence, success exactly when it returned and some row is.
C3_StatusTrichotomy ==
    pc = "done" =>
        \A k \in DOMAIN formatted_results :
            LET o == lookups[k].outcome
                st == formatted_results[k].status
            IN /\ st \in {"failed", "no_mappings", "success"}
               /\ (st = "failed") <=> (o.kind = "exception")
               /\ (st = "no_mappings") <=>
                    (o.kind = "ok" /\ RowsRemaining(o.value, min_confidence) = {})
               /\ (st = "success") <=>
                    (o.kind = "ok" /\ RowsRemaining(o.value, min_confidence) # {})

C3_Witness ==
    /\ pc = "done"
    /\ Len(terms) >= 4
    /\ lookups[1].outcome = Returned(LowOnlyMap)
    /\ formatted_results[1].status = "no_mappings"
    /\ formatted_results[2].status = "success"
    /\ formatted_results[3].status = "failed"
    /\ lookups[4].outcome = Returned(EmptyMap)
    /\ formatted_results[4].status = "no_mappings"

\* C4: in every emitted term result, every row is at or above
\* min_confidence, no vocabulary maps to an empty list, and the rows of each
\* vocabulary are exactly the rows of the lookup's result at or above
\* min_confidence, in their order; a vocabulary is dropped exactly when no
\* row of it is.
C4_FilterExact ==
    pc = "done" =>
        \A k \in DOMAIN formatted_results :
            lookups[k].outcome.kind = "ok" =>
                LET m == lookups[k].outcome.value
                    f == formatted_results[k].results
                    AtLeastMin(row) == row.confidence >= min_confidence
                IN /\ DOMAIN f = {s \in DOMAIN m :
                                    \E x \in 1..Len(m[s]) : m[s][x].confidence >= min_confidence}
                   /\ \A s \in DOMAIN f :
                        /\ f[s] # <<>>
                        /\ \A x \in 1..Len(f[s]) : f[s][x].confidence >= min_confidence
                        /\ f[s] = SelectSeq(m[s], AtLeastMin)

C4_Witness ==
    /\ pc = "done"
    /\ min_confidence = 6000
    /\ Len(terms) >= 1
    /\ lookups[1].outcome = Returned(MixedMap)
    /\ DOMAIN formatted_results[1].results = {"snomed"}
    /\ Len(formatted_results[1].results["snomed"]) = 2

PendingLookups == {k \in DOMAIN lookups : lookups[k].outcome = Pending}
StartedChunks == {ChunkOf(k) : k \in {x \in DOMAIN lookups : lookups[x].outcome # Unstarted}}

\* C5: chunks of 5 run strictly in sequence: while a lookup of a chunk is
\* started, every lookup of the earlier chunks has completed and exactly one
\* delay per earlier chunk has elapsed; no delay follows the last chunk; at
\* most 5 lookups are in flight.
C5_ChunksInSequence ==
    /\ Cardinality(PendingLookups) <= batch_size
    /\ \A k \in DOMAIN lookups :
         lookups[k].outcome # Unstarted =>
            /\ sleeps >= ChunkOf(k)
            /\ \A e \in DOMAIN lookups :
                 ChunkOf(e) < ChunkOf(k) => Completed(lookups[e].outcome)
    /\ \A k \in PendingLookups : sleeps = ChunkOf(k)
    /\ sleeps <= Cardinality(StartedChunks)
    /\ pc = "done" =>
         sleeps = (IF Len(terms) = 0 THEN 0 ELSE NumChunks(Len(terms)) - 1)

C5_Witness ==
    /\ pc = "gather"
    /\ Len(terms) = 7
    /\ sleeps = 1
    /\ PendingLookups = {6, 7}
    /\ \A k \in 1..5 : Completed(lookups[k].outcome)

\* C19 (checked under SpecCancel): once a running batch_map_terms has been
\* cancelled, while it awaits the lookups of a chunk or during the delay
\* between chunks, no further lookup is started and the call returns no
\* result list.
C19_CancelStopsTheBatch ==
    cancelled_at # NotCancelled =>
        /\ pc = "cancelled"
        /\ Cardinality(Started) = cancelled_at
        /\ formatted_results = <<>>

C19_Witness ==
    /\ pc = "cancelled"
    /\ Len(terms) = 7
    /\ Len(results) = 5
    /\ cancelled_at = 5

\* ------------------------------------------------------------------------
\* calculate_confidence (thread_safe_mapper.py, lines 11-41)
\* ------------------------------------------------------------------------
\* A display string is kept as its relation to the (lowercased, stripped)
\* search term and the three scores the fuzzy library gives for the pair,
\* in tenths of a point.
Display(rel, ratio, token_sort, token_set) ==
    [rel |-> rel, ratio |-> ratio, token_sort |-> token_sort, token_set |-> token_set]

Max(a, b) == IF a > b THEN a ELSE b

\* round(x, 2) on ten-thousandths: to the nearest hundred, halves to the
\* even one
Round2(x) ==
    LET q == x \div 100
        r == x % 100
    IN IF r < 50 THEN q * 100
       ELSE IF r > 50 THEN (q + 1) * 100
       ELSE IF q % 2 = 0 THEN q * 100 ELSE (q + 1) * 100

calculate_confidence(search_term, display) ==
    IF search_term = <<>> \/ display.rel = "empty" THEN 0
    ELSE IF display.rel = "equal" THEN 10000
    ELSE IF display.rel = "contains" THEN Max(8500, display.ratio * 10)
    ELSE Round2(Max(display.ratio, Max(display.token_sort, display.token_set)) * 10)

\* ------------------------------------------------------------------------
\* Strings (fuzzy_matcher.py works on Python str): a string is the sequence
\* of its characters, each a one-character string.
\* ------------------------------------------------------------------------
UpperLetters == <<"A", "B", "C", "D", "E", "F", "G", "H", "I", "J", "K", "L", "M", "N", "O", "P", "Q", "R", "S", "T", "U", "V", "W", "X", "Y", "Z">>
LowerLetters == <<"a", "b", "c", "d", "e", "f", "g", "h", "i", "j", "k", "l", "m", "n", "o", "p", "q", "r", "s", "t", "u", "v", "w", "x", "y", "z">>
Digits == {"0", "1", "2", "3", "4", "5", "6", "7", "8", "9"}

IsUpperLetter(c) == \E k \in DOMAIN UpperLetters : UpperLetters[k] = c
IsLowerLetter(c) == \E k \in DOMAIN LowerLetters : LowerLetters[k] = c

\* \s of the re module
IsSpace(c) == c \in {" ", "\t"}

\* \w of the re module
IsWordChar(c) == IsUpperLetter(c) \/ IsLowerLetter(c) \/ c \in Digits \/ c = "_"

\* str.lower()
lower(s) ==
    [k \in DOMAIN s |->
        IF IsUpperLetter(s[k])
        THEN LowerLetters[CHOOSE n \in DOMAIN UpperLetters : UpperLetters[n] = s[k]]
        ELSE s[k]]

\* str.upper()
upper(s) ==
    [k \in DOMAIN s |->
        IF IsLowerLetter(s[k])
        THEN UpperLetters[CHOOSE n \in DOMAIN LowerLetters : LowerLetters[n] = s[k]]
        ELSE s[k]]

RECURSIVE lstrip(_)
lstrip(s) == IF s # <<>> /\ IsSpace(Head(s)) THEN lstrip(Tail(s)) ELSE s

RECURSIVE rstrip(_)
rstrip(s) ==
    IF s # <<>> /\ IsSpace(s[Len(s)]) THEN rstrip(SubSeq(s, 1, Len(s) - 1)) ELSE s

\* str.strip()
strip(s) == rstrip(lstrip(s))

\* re.sub(r'\s+', ' ', s): every run of whitespace becomes one blank
RECURSIVE sub_whitespace(_)
sub_whitespace(s) ==
    IF s = <<>> THEN <<>>
    ELSE IF IsSpace(Head(s)) THEN <<" ">> \o sub_whitespace(lstrip(s))
    ELSE <<Head(s)>> \o sub_whitespace(Tail(s))

\* re.sub(r'[^\w\s]', ' ', s): every punctuation character becomes a blank
sub_punctuation(s) ==
    [k \in DOMAIN s |-> IF IsWordChar(s[k]) \/ IsSpace(s[k]) THEN s[k] ELSE " "]

\* str.startswith / str.endswith
startswith(s, prefix) ==
    Len(prefix) <= Len(s) /\ SubSeq(s, 1, Len(prefix)) = prefix
endswith(s, suffix) ==
    Len(suffix) <= Len(s) /\ SubSeq(s, Len(s) - Len(suffix) + 1, Len(s)) = suffix

\* The first word of a string that starts with a non-blank, and what follows it
RECURSIVE FirstWord(_)
FirstWord(s) ==
    IF s = <<>> \/ IsSpace(Head(s)) THEN <<>> ELSE <<Head(s)>> \o FirstWord(Tail(s))

\* str.split(): the words between runs of whitespace
RECURSIVE split(_)
split(s) ==
    LET t == lstrip(s)
    IN IF t = <<>> THEN <<>>
       ELSE <<FirstWord(t)>> \o split(SubSeq(t, Len(FirstWord(t)) + 1, Len(t)))

\* ' '.join(words)
RECURSIVE join(_)
join(words) ==
    IF words = <<>> THEN <<>>
    ELSE IF Len(words) = 1 THEN words[1]
    ELSE words[1] \o <<" ">> \o join(Tail(words))

\* ------------------------------------------------------------------------
\* FuzzyMatcher: the tables of __init__ (fuzzy_matcher.py, lines 59-137).
\* Of each table the model keeps the entries that the terms below can meet.
\* ------------------------------------------------------------------------
\* `prefixes` of _generate_term_variations (line 276)
prefixes ==
    { <<"h", "i", "s", "t", "o", "r", "y", " ", "o", "f", " ">>, <<"c", "h", "r", "o", "n", "i", "c", " ">>, <<"a", "c", "u", "t", "e", " ">>, <<"s", "u", "s", "p", "e", "c", "t", "e", "d", " ">>, <<"p", "o", "s", "s", "i", "b", "l", "e", " ">>, <<"r", "e", "c", "u", "r", "r", "e", "n", "t", " ">> }

\* self.abbreviations: 'HA', 'CP' and 'BP'
abbreviations ==
    { [abbrev |-> <<"H", "A">>, expansions |-> {<<"h", "e", "a", "d", "a", "c", "h", "e">>}],
      [abbrev |-> <<"C", "P">>, expansions |-> {<<"c", "h", "e", "s", "t", " ", "p", "a", "i", "n">>}],
      [abbrev |-> <<"B", "P">>, expansions |-> {<<"b", "l", "o", "o", "d", " ", "p", "r", "e", "s", "s", "u", "r", "e">>}] }

\* self.common_replacements: 'pain' and 'test'
common_replacements ==
    { [word |-> <<"p", "a", "i", "n">>, replacements |-> {<<"a", "c", "h", "e">>, <<"d", "i", "s", "c", "o", "m", "f", "o", "r", "t">>, <<"s", "o", "r", "e", "n", "e", "s", "s">>}],
      [word |-> <<"t", "e", "s", "t">>, replacements |-> {<<"a", "s", "s", "a", "y">>, <<"a", "n", "a", "l", "y", "s", "i", "s">>, <<"m", "e", "a", "s", "u", "r", "e", "m", "e", "n", "t">>}] }

\* self.medical_suffixes: 'itis', 'oma' and 'algia'
medical_suffixes ==
    { [suffix |-> <<"i", "t", "i", "s">>, meaning |-> <<"i", "n", "f", "l", "a", "m", "m", "a", "t", "i", "o", "n">>],
      [suffix |-> <<"o", "m", "a">>, meaning |-> <<"t", "u", "m", "o", "r">>],
      [suffix |-> <<"a", "l", "g", "i", "a">>, meaning |-> <<"p", "a", "i", "n">>] }

\* self.thresholds: the score cut-offs in tenths of a point, the cosine
\* threshold in hundredths of the 0..1 similarity
ratio_threshold == 900
partial_ratio_threshold == 950
token_sort_ratio_threshold == 850
cosine_threshold == 70
levenshtein_threshold == 80

\* ------------------------------------------------------------------------
\* The synonym store self.synonyms: cluster id -> list of members, as
\* json.load gives it and as add_synonym stores it.
\* ------------------------------------------------------------------------
Range(seq) == {seq[k] : k \in DOMAIN seq}

\* list(a_set): the members in some order (the order is not observed)
RECURSIVE list(_)
list(S) == IF S = {} THEN <<>> ELSE LET x == CHOOSE y \in S : TRUE IN <<x>> \o list(S \ {x})

\* ------------------------------------------------------------------------
\* _generate_term_variations (lines 263-320): the set `variations` before it
\* is turned into a list
\* ------------------------------------------------------------------------
PrefixVariations(t) ==
    {SubSeq(t, Len(p) + 1, Len(t)) : p \in {q \in prefixes : startswith(t, q)}}

term_no_punct(t) == sub_punctuation(t)

term_norm(t) == strip(sub_whitespace(term_no_punct(t)))

AbbreviationVariations(t) ==
    UNION { IF upper(t) = upper(a.abbrev)
            THEN {lower(e) : e \in a.expansions}
            ELSE IF \E e \in a.expansions : lower(t) = lower(e)
                 THEN {lower(a.abbrev)}
                 ELSE {} : a \in abbreviations }

ReplacementVariations(t) ==
    LET words == split(t)
    IN UNION { UNION { {join([words EXCEPT ![k] = r]) : r \in c.replacements} :
                       c \in {d \in common_replacements : d.word = lower(words[k])} } :
               k \in DOMAIN words }

SuffixVariations(t) ==
    {SubSeq(t, 1, Len(t) - Len(m.suffix)) \o <<" ">> \o m.meaning :
        m \in {n \in medical_suffixes : endswith(t, n.suffix)}}

SynonymVariations(t, syns) ==
    UNION { {lower(s) : s \in Range(syns[key])} :
            key \in {k \in DOMAIN syns : t \in Range(syns[k])} }

generate_term_variations(t, syns) ==
    LET variations ==
            {t} \cup PrefixVariations(t) \cup {term_no_punct(t), term_norm(t)}
                \cup AbbreviationVariations(t) \cup ReplacementVariations(t)
                \cup SuffixVariations(t) \cup SynonymVariations(t, syns)
    IN {v \in variations : v # <<>>}

\* _load_synonyms (lines 155-167): the file's content when a path is
\* configured and the file exists and parses, otherwise the empty store
CorruptFile == [kind |-> "corrupt"]
JsonFile(syns) == [kind |-> "json", data |-> syns]

load_synonyms(path, file) ==
    IF path /\ file.kind = "json" THEN file.data ELSE <<>>

\* _save_synonyms (lines 829-842): nothing without a configured path;
\* otherwise the store is dumped over the file.  Every exception is logged
\* and swallowed: a failure before the file is opened leaves the file as it
\* was, a failure during the dump leaves a truncated file.
WriteOutcomes == {"ok", "open_fails", "dump_fails"}

save_synonyms(syns, path, file, outcome) ==
    IF ~path THEN file
    ELSE IF outcome = "ok" THEN JsonFile(syns)
    ELSE IF outcome = "open_fails" THEN file
    ELSE CorruptFile

\* f"syn_set_{len(self.synonyms) + 1}"
new_key(syns) == "syn_set_" \o ToString(Cardinality(DOMAIN syns) + 1)

\* add_synonym (lines 788-827).  The answer tells the new store, whether
\* _save_synonyms was reached, and the returned flag.  When the term is
\* already a member of a cluster, line 811 calls update() on the cluster,
\* which is a list: the AttributeError is caught by line 825, the store is
\* left as it was and False is returned.
add_synonym(syns, t, members) ==
    LET syn_set == {lower(t)} \cup {lower(s) : s \in members}
        holders == {key \in DOMAIN syns : lower(t) \in Range(syns[key])}
    IN IF holders # {}
       THEN [synonyms |-> syns, saved |-> FALSE, result |-> FALSE]
       ELSE [synonyms |-> [key \in DOMAIN syns \cup {new_key(syns)} |->
                              IF key = new_key(syns) THEN list(syn_set) ELSE syns[key]],
             saved |-> TRUE,
             result |-> TRUE]

\* ------------------------------------------------------------------------
\* _build_index (lines 189-228): every row of <system>_concepts with a term
\* is indexed under its lowercased term and under each of its variations; a
\* later row overwrites an earlier row's key.
\* ------------------------------------------------------------------------
DbRow(code, t, display) == [code |-> code, term |-> t, display |-> display]

RECURSIVE build_index(_, _, _)
build_index(rows, syns, index) ==
    IF rows = <<>> THEN index
    ELSE IF Head(rows).term = <<>> THEN build_index(Tail(rows), syns, index)
    ELSE LET term_lower == lower(Head(rows).term)
             entry == [code |-> Head(rows).code, display |-> Head(rows).display]
             keys == {term_lower} \cup generate_term_variations(term_lower, syns)
         IN build_index(Tail(rows), syns,
                        [key \in DOMAIN index \cup keys |->
                            IF key \in keys THEN entry ELSE index[key]])

\* self.term_lists[system]: (code, term_lower, display) of the rows with a term
RECURSIVE build_term_list(_)
build_term_list(rows) ==
    IF rows = <<>> THEN <<>>
    ELSE IF Head(rows).term = <<>> THEN build_term_list(Tail(rows))
    ELSE <<DbRow(Head(rows).code, lower(Head(rows).term), Head(rows).display)>>
            \o build_term_list(Tail(rows))

\* ------------------------------------------------------------------------
\* The answers of the libraries.  process.extractOne gives None, or a key of
\* the index with a score of at least the cut-off and at most 100;
\* cosine_similarity gives, for the best row of the term list, a similarity
\* between 0 and 1 (kept in hundredths), or the vectorizer is missing or
\* raises.
\* ------------------------------------------------------------------------
NoMatch == [matched |-> FALSE]
Match(key, score) == [matched |-> TRUE, key |-> key, score |-> score]

ExtractOneAnswers(keys, cutoff) ==
    {NoMatch} \cup {Match(key, score) : key \in keys, score \in {cutoff, 1000}}

NoCosine == [available |-> FALSE]
Cosine(idx, similarity) == [available |-> TRUE, idx |-> idx, similarity |-> similarity]

\* Lines 393-486: the four scorers in the order ratio, partial_ratio,
\* token_sort_ratio, token_set_ratio; a later scorer replaces the best one
\* only with a strictly higher score.
NoBest == [best_score |-> 0, best_match |-> <<>>, match_type |-> ""]

\* Variant: a later scorer with an equal score replaces the best one.
Take_ties(best, answer, match_type) ==
    IF answer.matched /\ answer.score >= best.best_score
    THEN [best_score |-> answer.score, best_match |-> answer.key, match_type |-> match_type]
    ELSE best

Take(best, answer, match_type) ==
    IF answer.matched /\ answer.score > best.best_score
    THEN [best_score |-> answer.score, best_match |-> answer.key, match_type |-> match_type]
    ELSE best

\* Variant: no length gate.
LengthGate_off(matched_term, t) == TRUE

\* Lines 452-461: len_ratio >= 0.3
LengthGate(matched_term, t) ==
    10 * Min(Len(matched_term), Len(t)) >= 3 * Max(Len(matched_term), Len(t))

TakePartial(best, answer, t) ==
    IF answer.matched /\ answer.score > best.best_score /\ LengthGate(answer.key, t)
    THEN [best_score |-> answer.score, best_match |-> answer.key,
          match_type |-> "partial_ratio"]
    ELSE best

None == [kind |-> "none"]

\* The dict find_fuzzy_match returns: it has "score" and no "confidence";
\* context_enhanced and context_term are the keys _adjust_for_context adds
\* (FALSE and <<>> stand for a dict without them)
MatchDict(code, display, match_type, score) ==
    [kind |-> "dict", found |-> TRUE, has_confidence |-> FALSE, confidence |-> 0,
     score |-> score, match_type |-> match_type, code |-> code, display |-> display,
     context_enhanced |-> FALSE, context_term |-> <<>>]

find_rapidfuzz_match(t, index, lib) ==
    IF DOMAIN index = {} THEN None
    ELSE LET best == Take(Take(TakePartial(Take(NoBest, lib.ratio, "ratio"),
                                           lib.partial_ratio, t),
                               lib.token_sort_ratio, "token_sort_ratio"),
                          lib.token_set_ratio, "token_set_ratio")
         IN IF best.best_match # <<>>
            THEN MatchDict(index[best.best_match].code, index[best.best_match].display,
                           best.match_type, best.best_score)
            ELSE None

\* Variant: the similarity is not compared with the threshold.
find_cosine_match_any(term_list, cos) ==
    IF cos.available
    THEN MatchDict(term_list[cos.idx].code, term_list[cos.idx].display, "cosine",
                   cos.similarity * 10)
    ELSE None

\* Lines 553-592: float(best_score * 100) of a similarity in hundredths is,
\* in tenths of a point, the similarity times ten.
find_cosine_match(term_list, cos) ==
    IF cos.available /\ cos.similarity >= cosine_threshold
    THEN MatchDict(term_list[cos.idx].code, term_list[cos.idx].display, "cosine",
                   cos.similarity * 10)
    ELSE None

\* Lines 372-383: the first result with a strictly higher score
RECURSIVE BestOf(_, _)
BestOf(matches, best) ==
    IF matches = <<>> THEN best
    ELSE IF Head(matches).score > (IF best = None THEN 0 ELSE best.score)
         THEN BestOf(Tail(matches), Head(matches))
         ELSE BestOf(Tail(matches), best)

\* ------------------------------------------------------------------------
\* _adjust_for_context (lines 615-706): per system, keyword of the display
\* -> cues of the context.  The `break` of line 658 leaves the loop over the
\* cues only: every keyword of the table that the display contains and that
\* has a cue in the context adds its own ten points, capped at 100.
\* ------------------------------------------------------------------------
Contains(s, sub) ==
    \E k \in 0..(Len(s) - Len(sub)) : SubSeq(s, k + 1, k + Len(sub)) = sub

condition_contexts ==
    << [keyword |-> <<"a", "s", "t", "h", "m", "a">>,
        contextual_terms |-> <<<<"r", "e", "s", "p", "i", "r", "a", "t", "o", "r", "y">>, <<"b", "r", "e", "a", "t", "h", "i", "n", "g">>, <<"w", "h", "e", "e", "z", "e">>, <<"i", "n", "h", "a", "l", "e", "r">>, <<"b", "r", "o", "n", "c", "h", "i", "a", "l">>>>],
       [keyword |-> <<"h", "e", "a", "r", "t">>,
        contextual_terms |-> <<<<"c", "a", "r", "d", "i", "a", "c">>, <<"c", "h", "e", "s", "t", " ", "p", "a", "i", "n">>, <<"c", "a", "r", "d", "i", "o", "v", "a", "s", "c", "u", "l", "a", "r">>, <<"e", "c", "g">>, <<"e", "k", "g">>>>] >>

lab_contexts ==
    << [keyword |-> <<"g", "l", "u", "c", "o", "s", "e">>,
        contextual_terms |-> <<<<"d", "i", "a", "b", "e", "t", "e", "s">>, <<"b", "l", "o", "o", "d", " ", "s", "u", "g", "a", "r">>, <<"f", "a", "s", "t", "i", "n", "g">>, <<"a", "1", "c">>>>] >>

med_contexts ==
    << [keyword |-> <<"a", "s", "p", "i", "r", "i", "n">>,
        contextual_terms |-> <<<<"a", "n", "t", "i", "p", "l", "a", "t", "e", "l", "e", "t">>, <<"p", "a", "i", "n">>, <<"b", "l", "o", "o", "d", " ", "t", "h", "i", "n", "n", "e", "r">>, <<"h", "e", "a", "r", "t">>, <<"s", "t", "r", "o", "k", "e">>>>] >>

ContextTable(system) ==
    IF system = "snomed" THEN condition_contexts
    ELSE IF system = "loinc" THEN lab_contexts
    ELSE IF system = "rxnorm" THEN med_contexts
    ELSE <<>>

Supported(entry, display, context) ==
    /\ Contains(lower(display), entry.keyword)
    /\ \E n \in DOMAIN entry.contextual_terms :
          Contains(lower(context), entry.contextual_terms[n])

\* The contextual term at which the inner loop breaks: the first of the
\* entry's list that occurs in the context
FirstCue(entry, context) ==
    entry.contextual_terms[CHOOSE n \in DOMAIN entry.contextual_terms :
        /\ Contains(lower(context), entry.contextual_terms[n])
        /\ \A m \in 1..(n - 1) : ~Contains(lower(context), entry.contextual_terms[m])]

\* Variant: the boost is not capped.
Boost_uncapped(score) == score + 100

\* result["score"] = min(100, result["score"] + 10)
Boost(score) == Min(1000, score + 100)

RECURSIVE AdjustScore(_, _, _, _)
AdjustScore(table, display, context, score) ==
    IF table = <<>> THEN score
    ELSE AdjustScore(Tail(table), display, context,
                     IF Supported(Head(table), display, context) THEN Boost(score) ELSE score)

\* result["context_term"] after the loop over the table: every keyword that
\* fires overwrites it
RECURSIVE AdjustTerm(_, _, _, _)
AdjustTerm(table, display, context, context_term) ==
    IF table = <<>> THEN context_term
    ELSE AdjustTerm(Tail(table), display, context,
                    IF Supported(Head(table), display, context)
                    THEN FirstCue(Head(table), context) ELSE context_term)

adjust_for_context(result, context, system) ==
    IF context = <<>> \/ result = None THEN result
    ELSE LET table == ContextTable(system)
             fired == \E n \in DOMAIN table : Supported(table[n], result.display, context)
         IN [result EXCEPT !.score = AdjustScore(table, result.display, context, result.score),
                           !.context_enhanced = fired,
                           !.context_term = AdjustTerm(table, result.display, context, <<>>)]

\* ------------------------------------------------------------------------
\* find_fuzzy_match (lines 322-391).  An outcome is the returned value, the
\* variation whose key the exact probe hit (<<>> if none) and whether the
\* fuzzy scorers ran.  `for var in variations` walks a list made from a set
\* of strings, whose order changes with the interpreter's hash seed: the
\* probe may meet any of the variations that are keys first.
\* ------------------------------------------------------------------------
Outcome(result, var, scorers_run, lib, best_match) ==
    [result |-> result, var |-> var, scorers_run |-> scorers_run, lib |-> lib,
     best_match |-> best_match]

NoLibrary == [consulted |-> FALSE]

Library(ratio, partial_ratio, token_sort_ratio, token_set_ratio, cosine) ==
    [consulted |-> TRUE, ratio |-> ratio, partial_ratio |-> partial_ratio,
     token_sort_ratio |-> token_sort_ratio, token_set_ratio |-> token_set_ratio,
     cosine |-> cosine]

clean_term(t) == strip(sub_whitespace(lower(t)))

ExactResult(entry) == MatchDict(entry.code, entry.display, "variation", 1000)

\* Lines 358-385 for given answers of the libraries: best_match before the
\* context is looked at
BestMatch(t, index, term_list, lib) ==
    LET string_match == find_rapidfuzz_match(t, index, lib)
        cosine_match == find_cosine_match(term_list, lib.cosine)
        matches == (IF string_match # None THEN <<string_match>> ELSE <<>>)
                       \o (IF cosine_match # None THEN <<cosine_match>> ELSE <<>>)
    IN BestOf(matches, None)

\* Lines 358-391 for given answers of the libraries
FuzzyResult(t, system, context, index, term_list, lib) ==
    adjust_for_context(BestMatch(t, index, term_list, lib), context, system)

\* Variant: the fuzzy scorers are consulted before the exact probe is trusted.
ExactProbeFirst_off == FALSE

\* Lines 341-355: the probe of the variations returns before any scorer runs
ExactProbeFirst == TRUE

FindFuzzyMatchOutcomes(t, system, context, syns, index, term_list, libs) ==
    IF t = <<>> THEN {Outcome(None, <<>>, FALSE, NoLibrary, None)}
    ELSE LET variations == generate_term_variations(clean_term(t), syns)
             hits == variations \cap DOMAIN index
             fuzzy == {Outcome(FuzzyResult(clean_term(t), system, context, index,
                                           term_list, lib), <<>>, TRUE, lib,
                               BestMatch(clean_term(t), index, term_list, lib)) :
                          lib \in libs}
         IN IF hits # {} /\ ExactProbeFirst
            THEN {Outcome(ExactResult(index[var]), var, FALSE, NoLibrary, None) :
                     var \in hits}
            ELSE fuzzy

\* Variant: find_fuzzy_match hands out the entry of the index itself.
ResultIsNewDict_off == FALSE

\* Lines 348-355, 477-484 and 581-588: the returned dict is built by a dict
\* display from the fields of the index entry, so the writes of
\* _adjust_for_context (lines 655-657) land in an object of its own
ResultIsNewDict == TRUE

\* self.term_index[system] after one find_fuzzy_match call
IndexAfterFind(index, outcome, context) ==
    IF ResultIsNewDict \/ outcome.result = None \/ ~outcome.scorers_run \/ context = <<>>
    THEN index
    ELSE [key \in DOMAIN index |->
             IF index[key].code = outcome.result.code THEN outcome.result ELSE index[key]]

\* ------------------------------------------------------------------------
\* fuzzy_search_db (lines 708-786): the rows of a table whose term contains
\* a variation of at least three characters (LIKE, which ignores case),
\* kept when fuzz.ratio of the query and the row's term reaches the
\* levenshtein threshold.  `similarity` is the ratio the library gives, in
\* hundredths; the tables here stay below the limits of 20 and 10 rows, and
\* the answer is kept as the set of its rows (one per code).
\* ------------------------------------------------------------------------
fuzzy_search_db(t, rows, syns, similarity) ==
    LET normalized_term == clean_term(t)
        variants == {v \in generate_term_variations(normalized_term, syns) : Len(v) >= 3}
        found == {k \in DOMAIN rows :
                     \E v \in variants : Contains(lower(rows[k].term), lower(v))}
    IN IF similarity >= levenshtein_threshold
       THEN {[code |-> rows[k].code, display |-> rows[k].display, term |-> rows[k].term,
              similarity |-> similarity * 10, match_type |-> "fuzzy",
              confidence |-> similarity * 10] : k \in found}
       ELSE {}

\* ------------------------------------------------------------------------
\* One FuzzyMatcher instance: construction, initialize, then any sequence
\* of find_fuzzy_match, fuzzy_search_db and add_synonym calls
\* ------------------------------------------------------------------------
MaxOps == 2

MatcherSystems == {"snomed", "loinc", "rxnorm"}

\* The rows of the <system>_concepts tables
DbRows(system) ==
    IF system = "snomed"
    THEN << DbRow("29857009", <<"C", "h", "e", "s", "t", " ", "p", "a", "i", "n">>, <<"C", "h", "e", "s", "t", " ", "p", "a", "i", "n">>),
            DbRow("279084009", <<"C", "h", "e", "s", "t", " ", "d", "i", "s", "c", "o", "m", "f", "o", "r", "t">>, <<"C", "h", "e", "s", "t", " ", "d", "i", "s", "c", "o", "m", "f", "o", "r", "t">>),
            DbRow("195967001", <<"A", "s", "t", "h", "m", "a">>, <<"A", "s", "t", "h", "m", "a">>),
            DbRow("11389007", <<"C", "a", "r", "d", "i", "a", "c", " ", "a", "s", "t", "h", "m", "a">>, <<"A", "s", "t", "h", "m", "a", " ", "d", "u", "e", " ", "t", "o", " ", "h", "e", "a", "r", "t", " ", "f", "a", "i", "l", "u", "r", "e">>) >>
    ELSE IF system = "loinc"
    THEN << DbRow("2345-7", <<"G", "l", "u", "c", "o", "s", "e", " ", "t", "e", "s", "t">>, <<"G", "l", "u", "c", "o", "s", "e", " ", "[", "M", "a", "s", "s", "/", "v", "o", "l", "u", "m", "e", "]", " ", "i", "n", " ", "S", "e", "r", "u", "m">>) >>
    ELSE << DbRow("1191", <<"A", "s", "p", "i", "r", "i", "n">>, <<"A", "s", "p", "i", "r", "i", "n">>) >>

\* Synonym files found at construction: none, one that does not parse, one
\* written by an earlier add_synonym, and one whose only cluster has
\* another id
SynonymFiles ==
    { NoFile, CorruptFile,
      JsonFile([key \in {"syn_set_1"} |-> <<<<"a", "s", "t", "h", "m", "a">>, <<"r", "a", "d">>>>]),
      JsonFile([key \in {"syn_set_2"} |-> <<<<"a", "s", "t", "h", "m", "a">>, <<"r", "a", "d">>>>]) }

\* Arguments of add_synonym
AddArgs ==
    { [term |-> <<"A", "s", "t", "h", "m", "a">>, synonyms |-> {<<"R", "A", "D">>}],
      [term |-> <<"a", "s", "t", "h", "m", "a">>, synonyms |-> {<<"w", "h", "e", "e", "z", "i", "n", "g">>}],
      [term |-> <<"c", "p">>, synonyms |-> {<<"a", "n", "g", "i", "n", "a">>}] }

\* Arguments of find_fuzzy_match; a context of <<>> stands for None
Query(t, system, context) == [term |-> t, system |-> system, context |-> context]

Queries ==
    { Query(<<>>, "snomed", <<>>),
      Query(<<"C", "P">>, "snomed", <<>>),
      Query(<<" ", "C", "h", "e", "s", "t", " ", " ", "P", "a", "i", "n">>, "snomed", <<"e", "c", "g", " ", "d", "o", "n", "e">>),
      Query(<<"c", "h", "e", "s", "t", "-", "p", "a", "i", "n">>, "snomed", <<>>),
      Query(<<"r", "a", "d">>, "snomed", <<>>),
      Query(<<"a", "s", "t", "h", "m">>, "snomed", <<"E", "C", "G", " ", "d", "o", "n", "e", ",", " ", "u", "s", "e", "s", " ", "a", "n", " ", "I", "n", "h", "a", "l", "e", "r">>),
      Query(<<"a", "s", "t", "h", "m">>, "snomed", <<>>),
      Query(<<"a", "s">>, "snomed", <<>>),
      Query(<<"g", "l", "u", "c", "o", "s">>, "loinc", <<"f", "a", "s", "t", "i", "n", "g">>),
      Query(<<"a", "s", "p", "r", "i", "n">>, "rxnorm", <<>>) }

\* The keys the scorers are seen to answer with: the shortest and the
\* longest key of the index
Shortest(keys) == CHOOSE k \in keys : \A other \in keys : Len(k) <= Len(other)
Longest(keys) == CHOOSE k \in keys : \A other \in keys : Len(k) >= Len(other)

\* Answers of the libraries to one query: nothing above the cut-offs; one
\* scorer only; a long key found by partial_ratio next to a lower
\* token_sort_ratio; a cosine match above the string match; a cosine
\* similarity below its threshold; ratio, token_sort_ratio and cosine with
\* the same score for different rows; a cosine match alone, for the last
\* row of the term list
Libraries(index, term_list) ==
    IF DOMAIN index = {} THEN {Library(NoMatch, NoMatch, NoMatch, NoMatch, NoCosine)}
    ELSE LET short == Shortest(DOMAIN index)
             long == Longest(DOMAIN index)
         IN { Library(NoMatch, NoMatch, NoMatch, NoMatch, NoCosine),
              Library(Match(short, 920), NoMatch, NoMatch, NoMatch, NoCosine),
              Library(NoMatch, Match(long, 1000), Match(short, 900), Match(short, 900),
                      NoCosine),
              Library(Match(short, 900), NoMatch, NoMatch, NoMatch, Cosine(1, 100)),
              Library(NoMatch, NoMatch, NoMatch, NoMatch, Cosine(1, 69)),
              Library(Match(short, 900), NoMatch, Match(long, 900), NoMatch,
                      Cosine(Len(term_list), 90)),
              Library(NoMatch, NoMatch, NoMatch, NoMatch, Cosine(Len(term_list), 75)) }

\* How one _build_index call ends (lines 189-228): it returns True; there is
\* no connection for the system and it returns False (lines 192-194); or an
\* exception is raised and caught (lines 226-228) after `indexed` rows have
\* been put in the index and the term list -- none when the query fails,
\* some when a later row cannot be handled (term.lower() of a term that is
\* not text, line 207).
BuildOk == [kind |-> "ok"]
NoConnection == [kind |-> "no_connection"]
BuildRaises(indexed) == [kind |-> "raises", indexed |-> indexed]

\* The rows that are indexed when the call has ended
RowsIndexed(rows, build) ==
    IF build.kind = "ok" THEN rows
    ELSE IF build.kind = "raises" THEN SubSeq(rows, 1, build.indexed)
    ELSE <<>>

AllBuilt == [system \in MatcherSystems |-> BuildOk]

\* The build of one system fails
FailedBuilds ==
    UNION { { [AllBuilt EXCEPT ![system] = build] :
                build \in {NoConnection}
                            \cup {BuildRaises(n) : n \in 0..(Len(DbRows(system)) - 1)} } :
            system \in MatcherSystems }

\* __init__ (lines 35-139): empty indexes, the synonyms loaded from the file
InitFuzzyMatcher ==
    /\ synonyms_path \in BOOLEAN
    /\ synonyms_file \in SynonymFiles
    /\ synonyms = load_synonyms(synonyms_path, synonyms_file)
    /\ initialized = FALSE
    /\ term_index = [system \in MatcherSystems |-> <<>>]
    /\ term_lists = [system \in MatcherSystems |-> <<>>]
    /\ fm_op = NoOp
    /\ fm_rerun = NoOp
    /\ fm_count = 0
    /\ BatchIdle
    /\ MapIdle
    /\ ThreadsIdle
    /\ WritersIdle

\* A matcher over databases whose three builds succeed
InitMatcher ==
    /\ InitFuzzyMatcher
    /\ fm_builds = AllBuilt

\* initialize (lines 169-187): the three _build_index calls are all made
\* (each is evaluated before `and success`), whatever the earlier ones gave
Initialize ==
    /\ ~initialized
    /\ initialized' = TRUE
    /\ term_index' = [system \in MatcherSystems |->
                         build_index(RowsIndexed(DbRows(system), fm_builds[system]),
                                     synonyms, <<>>)]
    /\ term_lists' = [system \in MatcherSystems |->
                         build_term_list(RowsIndexed(DbRows(system), fm_builds[system]))]
    /\ fm_op' = [op |-> "initialize",
                 result |-> \A system \in MatcherSystems : fm_builds[system] = BuildOk]
    /\ fm_rerun' = NoOp
    /\ UNCHANGED <<synonyms_path, synonyms_file, synonyms, fm_count, fm_builds, batchVars,
                   mapVars, threadVars, writerVars>>

\* One call of add_synonym, with the outcome of the write it may attempt
AddSynonym ==
    /\ fm_count < MaxOps
    /\ \E args \in AddArgs, outcome \in WriteOutcomes :
         LET answer == add_synonym(synonyms, args.term, args.synonyms)
             writes == answer.saved /\ synonyms_path
         IN /\ writes \/ outcome = "ok"
            /\ synonyms' = answer.synonyms
            /\ synonyms_file' = IF answer.saved
                                THEN save_synonyms(answer.synonyms, synonyms_path,
                                                   synonyms_file, outcome)
                                ELSE synonyms_file
            /\ fm_op' = [op |-> "add_synonym", term |-> args.term,
                         synonyms |-> args.synonyms, before |-> synonyms,
                         write |-> IF writes THEN outcome ELSE "none",
                         result |-> answer.result]
    /\ fm_rerun' = NoOp
    /\ fm_count' = fm_count + 1
    /\ UNCHANGED <<synonyms_path, initialized, term_index, term_lists, fm_builds, batchVars, mapVars, threadVars, writerVars>>

\* One call of find_fuzzy_match
FindFuzzyMatch ==
    /\ fm_count < MaxOps
    /\ \E q \in Queries :
         \E outcome \in FindFuzzyMatchOutcomes(q.term, q.system, q.context, synonyms,
                                               term_index[q.system], term_lists[q.system],
                                               Libraries(term_index[q.system],
                                                         term_lists[q.system])) :
            /\ fm_op' = [op |-> "find_fuzzy_match", term |-> q.term, system |-> q.system,
                         context |-> q.context, outcome |-> outcome,
                         variations |-> IF q.term = <<>> THEN {}
                                        ELSE generate_term_variations(clean_term(q.term),
                                                                      synonyms)]
            /\ term_index' = [term_index EXCEPT ![q.system] =
                                  IndexAfterFind(@, outcome, q.context)]
    /\ fm_rerun' = NoOp
    /\ fm_count' = fm_count + 1
    /\ UNCHANGED <<synonyms_path, synonyms_file, synonyms, initialized, term_lists,
                   fm_builds, batchVars, mapVars, threadVars, writerVars>>

\* Arguments of fuzzy_search_db, the table being snomed_concepts
SearchTerms == { <<"C", "h", "e", "s", "t", " ", " ", "P", "A", "I", "N">>, <<"c", "p">> }

\* One call of fuzzy_search_db
FuzzySearchDb ==
    /\ fm_count < MaxOps
    /\ \E t \in SearchTerms, similarity \in {levenshtein_threshold - 1, 100} :
         fm_op' = [op |-> "fuzzy_search_db", term |-> t,
                   results |-> fuzzy_search_db(t, DbRows("snomed"), synonyms, similarity)]
    /\ fm_rerun' = NoOp
    /\ fm_count' = fm_count + 1
    /\ UNCHANGED <<synonyms_path, synonyms_file, synonyms, initialized, term_index,
                   term_lists, fm_builds, batchVars, mapVars, threadVars, writerVars>>

\* The same call once more, in another run of the interpreter: the same
\* arguments, store and index, and the same answers of the libraries
FindAgain ==
    /\ fm_op.op = "find_fuzzy_match"
    /\ fm_rerun = NoOp
    /\ \E outcome \in FindFuzzyMatchOutcomes(fm_op.term, fm_op.system, fm_op.context,
                                             synonyms, term_index[fm_op.system],
                                             term_lists[fm_op.system],
                                             {fm_op.outcome.lib}) :
            fm_rerun' = [op |-> "find_fuzzy_match", outcome |-> outcome]
    /\ UNCHANGED <<synonyms_path, synonyms_file, synonyms, initialized, term_index,
                   term_lists, fm_op, fm_count, fm_builds, batchVars, mapVars, threadVars, writerVars>>

NextMatcher ==
    \/ Initialize
    \/ AddSynonym
    \/ FindFuzzyMatch
    \/ FuzzySearchDb
    \/ FindAgain

SpecMatcher == InitMatcher /\ [][NextMatcher]_vars

\* A matcher without a synonyms file, over databases of which one may make
\* its build fail, and the queries made of it
InitBuild ==
    /\ InitFuzzyMatcher
    /\ ~synonyms_path
    /\ synonyms_file = NoFile
    /\ fm_builds \in {AllBuilt} \cup FailedBuilds

NextBuild ==
    \/ Initialize
    \/ FindFuzzyMatch

SpecBuild == InitBuild /\ [][NextBuild]_vars

\* ------------------------------------------------------------------------
\* Properties of the FuzzyMatcher (checked under SpecMatcher)
\* ------------------------------------------------------------------------
LastFind == fm_op.op = "find_fuzzy_match"
LastAdd == fm_op.op = "add_synonym"

\* The cluster an add_synonym call asks for
AskedCluster == {lower(fm_op.term)} \cup {lower(s) : s \in fm_op.synonyms}

\* Every member of every cluster of a store
Members(syns) == UNION {Range(syns[key]) : key \in DOMAIN syns}

\* C12: when the normalized form of the query (lowercased, whitespace
\* collapsed and trimmed, with or without its punctuation folded) is a key
\* of the exact index of the system, find_fuzzy_match returns a match of
\* score 100 and match type "variation", whatever the context, and no fuzzy
\* scorer has run.
C12_ExactKeyGivesVariation ==
    (LastFind /\ fm_op.term # <<>>
       /\ \/ clean_term(fm_op.term) \in DOMAIN term_index[fm_op.system]
          \/ /\ term_norm(clean_term(fm_op.term)) # <<>>
             /\ term_norm(clean_term(fm_op.term)) \in DOMAIN term_index[fm_op.system])
    => /\ fm_op.outcome.result # None
       /\ fm_op.outcome.result.score = 1000
       /\ fm_op.outcome.result.match_type = "variation"
       /\ ~fm_op.outcome.scorers_run

C12_Witness ==
    /\ LastFind
    /\ fm_op.context # <<>>
    /\ fm_op.term # clean_term(fm_op.term)
    /\ clean_term(fm_op.term) \in DOMAIN term_index[fm_op.system]
    /\ fm_op.outcome.result.match_type = "variation"

\* C13: after add_synonym(t, S), every member of S and t has all the other
\* members among its variations, also when t already belonged to a cluster.
C13_ClusterMembersReachEachOther ==
    LastAdd =>
        \A s \in AskedCluster : AskedCluster \subseteq generate_term_variations(s, synonyms)

\* C14: when the write of the synonyms file fails during add_synonym, the
\* store in memory keeps the update and add_synonym returns false; it
\* returns true only when the update is also in the file.
C14_WriteFailureReported ==
    LastAdd =>
        /\ fm_op.write \in {"open_fails", "dump_fails"} =>
              /\ fm_op.result = FALSE
              /\ \E key \in DOMAIN synonyms : AskedCluster \subseteq Range(synonyms[key])
        /\ (fm_op.result = TRUE /\ synonyms_path) => synonyms_file = JsonFile(synonyms)

\* C16: the same query on the same store and index, with the same answers
\* of the libraries, returns the same result in two runs; in particular the
\* same code when two variations of the query are keys with different codes.
C16_SameAnswerInTwoRuns ==
    fm_rerun.op = "find_fuzzy_match" => fm_rerun.outcome.result = fm_op.outcome.result

\* C20: an add_synonym call only grows the variations of every term: no
\* cluster of the store before the call is removed or loses a member.
C20_VariationsOnlyGrow ==
    LastAdd =>
        /\ \A x \in Members(fm_op.before) \cup Members(synonyms) :
              generate_term_variations(x, fm_op.before)
                  \subseteq generate_term_variations(x, synonyms)
        /\ \A key \in DOMAIN fm_op.before :
              /\ key \in DOMAIN synonyms
              /\ Range(fm_op.before[key]) \subseteq Range(synonyms[key])

\* The answer of the last find_fuzzy_match call, and the best match it had
\* before the context was looked at
Answer == fm_op.outcome.result
Unadjusted == fm_op.outcome.best_match

\* The last call went past the exact probe and returned a match
FuzzyMatched == LastFind /\ fm_op.outcome.scorers_run /\ Answer # None

\* The entries of the system's context table that the display and the
\* context of the last call support, in the order of the table
Hits ==
    LET table == ContextTable(fm_op.system)
    IN {n \in DOMAIN table : Supported(table[n], Answer.display, fm_op.context)}

\* C22: the context adjustment fires at most once per match: the returned
\* score is at most 100 and at most 10 points above the score of the best
\* scorer, also when the display holds several keywords whose cues all
\* occur in the context, and context_term is the cue of the first hit.
C22_BoostAtMostOnce ==
    FuzzyMatched =>
        /\ Answer.score <= 1000
        /\ Answer.score - Unadjusted.score <= 100
        /\ Answer.context_enhanced =>
              LET table == ContextTable(fm_op.system)
                  first == CHOOSE n \in Hits : \A m \in Hits : n <= m
              IN Answer.context_term = FirstCue(table[first], fm_op.context)

\* The length gate of partial_ratio for a key and the query of the last call
GatePasses(key) ==
    LET a == Len(key)
        b == Len(clean_term(fm_op.term))
    IN 10 * (IF a < b THEN a ELSE b) >= 3 * (IF a < b THEN b ELSE a)

\* The candidates the scorers produced for the last call, in the order
\* ratio, partial_ratio, token_sort_ratio, token_set_ratio, cosine: for each
\* scorer whether it has a candidate at or above its threshold (and past
\* the length gate), with the candidate's score, code and display
Candidates ==
    LET lib == fm_op.outcome.lib
        index == term_index[fm_op.system]
        rows == term_lists[fm_op.system]
        absent(type) == [type |-> type, qualifies |-> FALSE, score |-> 0,
                         code |-> "", display |-> <<>>]
        keyed(type, answer, cutoff, gated) ==
            IF answer.matched /\ answer.score >= cutoff
                 /\ (gated => GatePasses(answer.key))
            THEN [type |-> type, qualifies |-> TRUE, score |-> answer.score,
                  code |-> index[answer.key].code, display |-> index[answer.key].display]
            ELSE absent(type)
    IN IF ~lib.consulted THEN <<>>
       ELSE << keyed("ratio", lib.ratio, 900, FALSE),
               keyed("partial_ratio", lib.partial_ratio, 950, TRUE),
               keyed("token_sort_ratio", lib.token_sort_ratio, 850, FALSE),
               keyed("token_set_ratio", lib.token_set_ratio, 850, FALSE),
               IF lib.cosine.available /\ lib.cosine.similarity >= 70
               THEN [type |-> "cosine", qualifies |-> TRUE,
                     score |-> lib.cosine.similarity * 10,
                     code |-> rows[lib.cosine.idx].code,
                     display |-> rows[lib.cosine.idx].display]
               ELSE absent("cosine") >>

Qualifying == {n \in DOMAIN Candidates : Candidates[n].qualifies}

\* C23: when the exact probe misses, the match is the qualifying candidate
\* with the highest score, the first in the order ratio, partial_ratio,
\* token_sort_ratio, token_set_ratio, cosine among equal scores; match_type
\* names its scorer and code and display are the candidate's.
C23_HighestScoreFirstOnTies ==
    (LastFind /\ fm_op.outcome.scorers_run /\ Qualifying # {}) =>
        LET winner == CHOOSE n \in Qualifying :
                          \A m \in Qualifying :
                              \/ Candidates[m].score < Candidates[n].score
                              \/ Candidates[m].score = Candidates[n].score /\ n <= m
        IN /\ Answer # None
           /\ Answer.match_type = Candidates[winner].type
           /\ Answer.code = Candidates[winner].code
           /\ Answer.display = Candidates[winner].display
           /\ Unadjusted.score = Candidates[winner].score

C23_Witness ==
    /\ FuzzyMatched
    /\ Cardinality(Qualifying) = 3
    /\ \A n, m \in Qualifying : Candidates[n].score = Candidates[m].score
    /\ \E n, m \in Qualifying : Candidates[n].code # Candidates[m].code
    /\ Answer.match_type = "ratio"

\* C24: a match of type "partial_ratio" is never returned for a key whose
\* length ratio to the query is below 0.30, and a partial_ratio candidate
\* rejected by the gate does not keep a qualifying ratio, token_sort_ratio
\* or token_set_ratio candidate from being returned.
C24_PartialRatioLengthGate ==
    (LastFind /\ fm_op.outcome.scorers_run) =>
        LET lib == fm_op.outcome.lib
        IN /\ (Answer # None /\ Answer.match_type = "partial_ratio") =>
                 GatePasses(lib.partial_ratio.key)
           /\ (lib.partial_ratio.matched /\ ~GatePasses(lib.partial_ratio.key)
                  /\ (lib.ratio.matched \/ lib.token_sort_ratio.matched
                        \/ lib.token_set_ratio.matched)) =>
                 /\ Answer # None
                 /\ Answer.match_type \in {"ratio", "token_sort_ratio", "token_set_ratio",
                                            "cosine"}

C24_Witness ==
    /\ FuzzyMatched
    /\ fm_op.outcome.lib.partial_ratio.matched
    /\ fm_op.outcome.lib.partial_ratio.score = 1000
    /\ ~GatePasses(fm_op.outcome.lib.partial_ratio.key)
    /\ Answer.match_type = "token_sort_ratio"
    /\ Answer.score = 900

\* The threshold of a scorer, in tenths of a point
ThresholdOf(match_type) ==
    IF match_type = "ratio" THEN 900
    ELSE IF match_type = "partial_ratio" THEN 950
    ELSE IF match_type \in {"token_sort_ratio", "token_set_ratio"} THEN 850
    ELSE 700

\* C25: find_fuzzy_match returns None exactly when the exact probe misses
\* and no scorer has a qualifying candidate; a match that is not exact has,
\* before the context boost, at least the score of its scorer's threshold.
C25_NoneIffNothingQualifies ==
    LastFind =>
        /\ Answer = None <=>
              /\ fm_op.variations \cap DOMAIN term_index[fm_op.system] = {}
              /\ Qualifying = {}
        /\ FuzzyMatched => Unadjusted.score >= ThresholdOf(Answer.match_type)

C25_Witness ==
    /\ LastFind
    /\ fm_op.term # <<>>
    /\ initialized
    /\ fm_op.outcome.lib.consulted
    /\ fm_op.outcome.lib.cosine.available
    /\ fm_op.outcome.lib.cosine.similarity = 69
    /\ Answer = None

\* C21: once initialize() has run, no find_fuzzy_match (with or without a
\* context), fuzzy_search_db or add_synonym call changes the exact index or
\* the term list of any vocabulary: the context boost is written to the
\* returned match only, and add_synonym adds no key to the index.
C21_IndexImmutableAfterBuild ==
    [][initialized => (term_index' = term_index /\ term_lists' = term_lists)]_vars

C21_Witness ==
    /\ initialized
    /\ fm_count = MaxOps
    /\ synonyms # load_synonyms(synonyms_path, synonyms_file)
    /\ FuzzyMatched
    /\ Answer.context_enhanced
    /\ Answer.score > Unadjusted.score
    /\ \A key \in DOMAIN term_index[fm_op.system] :
           DOMAIN term_index[fm_op.system][key] = {"code", "display"}

\* The systems whose build failed in initialize
Unready == {system \in DOMAIN fm_builds : fm_builds[system] # BuildOk}

\* C28: when the build of one vocabulary fails in initialize (no connection,
\* or an exception while its rows are read or indexed), the other two are
\* still built completely and initialize returns false without raising;
\* afterwards find_fuzzy_match returns no match for the vocabulary whose
\* build failed.
C28_FailedBuildIsolated ==
    initialized =>
        /\ \A system \in MatcherSystems \ Unready :
              /\ term_lists[system] = build_term_list(DbRows(system))
              /\ \A k \in DOMAIN DbRows(system) :
                    lower(DbRows(system)[k].term) \in DOMAIN term_index[system]
        /\ fm_op.op = "initialize" => (fm_op.result <=> Unready = {})
        /\ (LastFind /\ fm_op.system \in Unready) => Answer = None

\* normalize: lowercase, punctuation folded to a blank, runs of whitespace
\* collapsed, stripped
normalize(v) == term_norm(clean_term(v))

\* C27: every variation generated for a query is non-empty and equal to
\* its own normalization.
C27_VariationsNormalized ==
    LastFind => \A v \in fm_op.variations : v # <<>> /\ v = normalize(v)

\* ------------------------------------------------------------------------
\* ThreadSafeTerminologyMapper.map_term (thread_safe_mapper.py, lines 59-157)
\* ------------------------------------------------------------------------
AllSystems == <<"snomed", "loinc", "rxnorm">>

\* The `term` argument: an abbreviation, and the empty string
MapTerms == {<<"c", "p">>, <<>>}

\* The `systems` argument: None, or a list of names
NoSystems == <<"None">>
SystemRequests ==
    {NoSystems, <<"loinc", "all">>, <<"snomed">>, <<"rxnorm", "loinc">>,
     <<"icd10", "snomed">>, <<>>}

MaxResultsChoices == {1, 3}

\* Rows an external adapter may return: {code, display, source}; a source of
\* "" stands for a row without the key.
AdapterRows ==
    { [code |-> "A1", display |-> Display("contains", 700, 700, 700), source |-> "nlm"],
      [code |-> "A2", display |-> Display("equal", 1000, 1000, 1000), source |-> ""],
      [code |-> "A3", display |-> Display("other", 412, 655, 747), source |-> ""] }

SeqsUpTo(S, n) == UNION {[1..k -> S] : k \in 0..n}

\* What one adapter call gives: it raises, or returns a list of rows of
\* whatever length (the adapter is handed max_results, the dispatcher does
\* not look at the length of what comes back).
AdapterRaises == [raises |-> TRUE, rows |-> <<>>]
AdapterResponses ==
    {AdapterRaises} \cup {[raises |-> FALSE, rows |-> rs] : rs \in SeqsUpTo(AdapterRows, MaxApiRows)}

\* What mapper.map_term (the local matcher) gives: it raises, returns None,
\* or returns a dict; has_confidence tells whether the dict carries
\* "confidence", and a match_type of "" stands for a dict without the key.
LocalDict(found, has_confidence, confidence, score, match_type) ==
    [kind |-> "dict", found |-> found, has_confidence |-> has_confidence,
     confidence |-> confidence, score |-> score, match_type |-> match_type,
     code |-> "L9", display |-> <<"l", "o", "c", "a", "l", " ", "d", "i", "s", "p", "l", "a", "y">>]
LocalRaises == [kind |-> "raises"]
LocalNone == None
NotCalled == [kind |-> "not_called"]

\* The matcher of the thread's TerminologyMapper: initialized over the
\* concept tables, with an empty synonym store.
MapperIndex == [system \in MatcherSystems |-> build_index(DbRows(system), <<>>, <<>>)]
MapperTermLists == [system \in MatcherSystems |-> build_term_list(DbRows(system))]

\* The `context` argument of map_term, which only the local matcher reads
MapContexts == { <<>>, <<"f", "a", "s", "t", "i", "n", "g">> }

\* What find_fuzzy_match may return for a term in a system
MatcherResults(t, system) ==
    IF system \notin MatcherSystems THEN {None}
    ELSE { outcome.result :
             outcome \in UNION { FindFuzzyMatchOutcomes(t, system, context, <<>>,
                                     MapperIndex[system], MapperTermLists[system],
                                     Libraries(MapperIndex[system], MapperTermLists[system])) :
                                 context \in MapContexts } }

\* mapper.map_term(term, system, context): the local matcher's
\* find_fuzzy_match answers; besides, for a non-empty term, the call may
\* return a dict that is no match, or a match that carries its own
\* "confidence"; and it may raise.
LocalAnswers ==
    [t \in MapTerms |->
        [system \in MatcherSystems \cup {"icd10"} |->
            {LocalRaises} \cup MatcherResults(t, system)
                \cup (IF t = <<>> THEN {}
                      ELSE {LocalDict(FALSE, FALSE, 0, 0, ""),
                            LocalDict(TRUE, TRUE, 8800, 1000, "")})]]

LocalResults(t, system) == LocalAnswers[t][system]

\* Lines 73-74
NormalizeSystems(req) ==
    IF req = NoSystems \/ (\E k \in DOMAIN req : req[k] = "all") THEN AllSystems ELSE req

\* Lines 108-118: one row per adapter row, in the adapter's order
FormatApiResults(t, api_results, system) ==
    [k \in 1..Len(api_results) |->
        [code |-> api_results[k].code,
         display |-> api_results[k].display,
         system |-> system,
         confidence |-> calculate_confidence(t, api_results[k].display),
         match_type |-> "api",
         source |-> IF api_results[k].source = "" THEN "external_api"
                    ELSE api_results[k].source]]

\* Lines 134-148: the rows a local result gives (none unless found)
LocalFound(lr) == lr.kind = "dict" /\ lr.found

LocalConfidence(lr) ==
    IF lr.has_confidence THEN lr.confidence
    ELSE IF lr.score <= 1000 THEN lr.score * 10 ELSE lr.score

LocalRow(lr, system) ==
    [code |-> lr.code,
     display |-> lr.display,
     system |-> system,
     confidence |-> LocalConfidence(lr),
     match_type |-> IF lr.match_type = "" THEN "local" ELSE lr.match_type,
     source |-> "local_database"]

\* Variant: the local matcher is consulted whatever the API gave.
LocalFallbackNeeded_always(sr) == TRUE

\* Line 127: if not system_results
LocalFallbackNeeded(sr) == sr = <<>>

\* Variant: the system is stored whatever its rows.
StoreNeeded_always(sr) == TRUE

\* Line 151: if system_results
StoreNeeded(sr) == sr # <<>>

\* Variant: no handler around the body of the loop; the error ends the call.
SystemErrorContained_off == FALSE

\* Lines 77 and 154-155: the try/except around one system's processing
SystemErrorContained == TRUE

\* all_results[system] = system_results
Store(m, system, sr) ==
    [s \in DOMAIN m \cup {system} |-> IF s = system THEN sr ELSE m[s]]

\* History of one loop iteration: the outcome of the system's adapter call
\* (api), of the Clinical Tables retry for rxnorm (rxterms), the rows the
\* external lookup finally yielded, and the local matcher's answer.
Call(api, rows, rxterms, local) ==
    [api |-> api, rows |-> rows, rxterms |-> rxterms, local |-> local]

AdapterStatus(resp) ==
    IF resp.raises THEN "raised" ELSE IF resp.rows = <<>> THEN "empty" ELSE "rows"

InitMap ==
    /\ term \in MapTerms
    /\ systems \in SystemRequests
    /\ max_results_per_system \in MaxResultsChoices
    /\ external_service \in BOOLEAN
    /\ mpc = "call"
    /\ sys_idx = 0
    /\ system_results = <<>>
    /\ all_results = <<>>
    /\ calls = <<>>
    /\ BatchIdle
    /\ MatcherIdle
    /\ ThreadsIdle
    /\ WritersIdle

\* Lines 69-76: all_results = {}, the systems defaulted, the loop entered.
MapTermBegin ==
    /\ mpc = "call"
    /\ systems' = NormalizeSystems(systems)
    /\ all_results' = <<>>
    /\ sys_idx' = 1
    /\ calls' = [k \in 1..Len(systems') |-> Call("unprocessed", <<>>, "not_called", NotCalled)]
    /\ mpc' = "api"
    /\ UNCHANGED <<term, max_results_per_system, external_service, system_results, batchVars, matcherVars, threadVars, writerVars>>

InLoop == mpc = "api" /\ sys_idx \in 1..Len(systems)

\* Lines 78-88 and 104-124 for a system other than rxnorm: no external
\* service, or the system's adapter is called and its rows are formatted, or
\* the system has no adapter (api_results = []).
SearchApi ==
    /\ InLoop
    /\ ~external_service \/ systems[sys_idx] # "rxnorm"
    /\ \/ /\ ~external_service
          /\ system_results' = <<>>
          /\ calls' = [calls EXCEPT ![sys_idx] = Call("unavailable", <<>>, "not_called", NotCalled)]
       \/ /\ external_service
          /\ systems[sys_idx] \in {"snomed", "loinc"}
          /\ \E resp \in AdapterResponses :
               /\ system_results' = FormatApiResults(term, resp.rows, systems[sys_idx])
               /\ calls' = [calls EXCEPT ![sys_idx] =
                               Call(AdapterStatus(resp), resp.rows, "not_called", NotCalled)]
       \/ /\ external_service
          /\ systems[sys_idx] \notin {"snomed", "loinc", "rxnorm"}
          /\ system_results' = <<>>
          /\ calls' = [calls EXCEPT ![sys_idx] = Call("no_adapter", <<>>, "not_called", NotCalled)]
    /\ mpc' = "after_api"
    /\ UNCHANGED <<term, systems, max_results_per_system, external_service, sys_idx,
                   all_results, batchVars, matcherVars, threadVars, writerVars>>

\* Variant: the Clinical Tables fallback is never tried.
RxtermsNeeded_never(api_results) == FALSE

\* Line 97: if not api_results
RxtermsNeeded(api_results) == api_results = <<>>

\* Lines 89-97: search_rxnorm; an exception gives api_results = []; an empty
\* api_results leads to the Clinical Tables fallback.
SearchRxnorm ==
    /\ InLoop
    /\ external_service
    /\ systems[sys_idx] = "rxnorm"
    /\ \E resp \in AdapterResponses :
         /\ system_results' = FormatApiResults(term, resp.rows, systems[sys_idx])
         /\ calls' = [calls EXCEPT ![sys_idx] =
                         Call(AdapterStatus(resp), resp.rows, "not_called", NotCalled)]
         /\ mpc' = IF RxtermsNeeded(resp.rows) THEN "rxterms" ELSE "after_api"
    /\ UNCHANGED <<term, systems, max_results_per_system, external_service, sys_idx,
                   all_results, batchVars, matcherVars, threadVars, writerVars>>

\* Lines 97-103 and 108-120: search_clinical_tables(term, 'rxterms')
SearchRxterms ==
    /\ mpc = "rxterms"
    /\ \E resp \in AdapterResponses :
         /\ system_results' = FormatApiResults(term, resp.rows, systems[sys_idx])
         /\ calls' = [calls EXCEPT ![sys_idx] =
                         Call(calls[sys_idx].api, resp.rows, AdapterStatus(resp), NotCalled)]
    /\ mpc' = "after_api"
    /\ UNCHANGED <<term, systems, max_results_per_system, external_service, sys_idx,
                   all_results, batchVars, matcherVars, threadVars, writerVars>>

\* Lines 127-155: the local fallback, then the store, then the next system.
\* An exception of the local matcher leaves the loop body through the
\* handler of line 154, which stores nothing.
LocalFallback ==
    /\ mpc = "after_api"
    /\ LocalFallbackNeeded(system_results)
    /\ \E lr \in LocalResults(term, systems[sys_idx]) :
         /\ calls' = [calls EXCEPT ![sys_idx].local = lr]
         /\ IF lr.kind = "raises"
            THEN /\ UNCHANGED <<system_results, all_results>>
                 /\ IF SystemErrorContained
                    THEN mpc' = "api" /\ sys_idx' = sys_idx + 1
                    ELSE mpc' = "raised" /\ sys_idx' = sys_idx
            ELSE LET sr == IF LocalFound(lr) THEN <<LocalRow(lr, systems[sys_idx])>>
                           ELSE system_results
                 IN /\ system_results' = sr
                    /\ all_results' = IF StoreNeeded(sr)
                                      THEN Store(all_results, systems[sys_idx], sr)
                                      ELSE all_results
                    /\ mpc' = "api"
                    /\ sys_idx' = sys_idx + 1
    /\ UNCHANGED <<term, systems, max_results_per_system, external_service, batchVars, matcherVars, threadVars, writerVars>>

\* Lines 127 and 151-152 when the API gave rows: no local call, the rows are stored.
StoreApiResults ==
    /\ mpc = "after_api"
    /\ ~LocalFallbackNeeded(system_results)
    /\ all_results' = IF StoreNeeded(system_results)
                      THEN Store(all_results, systems[sys_idx], system_results)
                      ELSE all_results
    /\ mpc' = "api"
    /\ sys_idx' = sys_idx + 1
    /\ UNCHANGED <<term, systems, max_results_per_system, external_service,
                   system_results, calls, batchVars, matcherVars, threadVars, writerVars>>

\* Line 157: return all_results
MapTermReturn ==
    /\ mpc = "api"
    /\ sys_idx > Len(systems)
    /\ mpc' = "done"
    /\ UNCHANGED <<term, systems, max_results_per_system, external_service, sys_idx,
                   system_results, all_results, calls, batchVars, matcherVars, threadVars, writerVars>>

NextMap ==
    \/ MapTermBegin
    \/ SearchApi
    \/ SearchRxnorm
    \/ SearchRxterms
    \/ LocalFallback
    \/ StoreApiResults
    \/ MapTermReturn

SpecMap == InitMap /\ [][NextMap]_vars

\* ------------------------------------------------------------------------
\* Properties of ThreadSafeTerminologyMapper.map_term (checked under SpecMap)
\* ------------------------------------------------------------------------
\* Loop positions whose iteration has ended
Processed == {k \in DOMAIN calls : k < sys_idx}

LocalConsulted(k) == calls[k].local # NotCalled

AdapterRaised(k) == calls[k].api = "raised" \/ calls[k].rxterms = "raised"

\* The entry one system's own adapter and matcher answers give (<<>>: none)
ExpectedEntry(k) ==
    IF calls[k].rows # <<>> THEN FormatApiResults(term, calls[k].rows, systems[k])
    ELSE IF LocalFound(calls[k].local) THEN <<LocalRow(calls[k].local, systems[k])>>
    ELSE <<>>

\* C6: for each requested vocabulary the local matcher is consulted exactly
\* when the external lookup yielded no rows (empty, raised, or no external
\* service); when an adapter raised and the local matcher finds a match, the
\* returned entry of the vocabulary is that local match.
C6_LocalIffNoExternalRows ==
    /\ \A k \in Processed :
         /\ LocalConsulted(k) <=> (calls[k].rows = <<>>)
         /\ calls[k].api \in {"unavailable", "no_adapter"} => LocalConsulted(k)
         /\ (calls[k].api \in {"raised", "empty"} /\ calls[k].rxterms # "rows"
               /\ calls[k].api # "rows") => LocalConsulted(k)
    /\ mpc = "done" =>
         \A k \in Processed :
            (AdapterRaised(k) /\ calls[k].rows = <<>> /\ LocalFound(calls[k].local)) =>
                /\ systems[k] \in DOMAIN all_results
                /\ all_results[systems[k]] = <<LocalRow(calls[k].local, systems[k])>>

C6_Witness ==
    /\ mpc = "done"
    /\ \E k \in Processed :
         /\ calls[k].api = "raised"
         /\ LocalFound(calls[k].local)
         /\ systems[k] \in DOMAIN all_results
         /\ all_results[systems[k]][1].source = "local_database"
    /\ \E k \in Processed : calls[k].rows # <<>> /\ ~LocalConsulted(k)

\* C7: an exception while one vocabulary is processed never leaves map_term
\* and never affects the others: the call returns, every requested
\* vocabulary has been processed, and the entry of each is the one its own
\* adapter and matcher answers give.
C7_SystemsIsolated ==
    /\ mpc # "raised"
    /\ mpc = "done" =>
         /\ Processed = DOMAIN systems
         /\ \A k \in DOMAIN systems :
              /\ calls[k].api # "unprocessed"
              /\ (systems[k] \in DOMAIN all_results) <=> (ExpectedEntry(k) # <<>>)
              /\ systems[k] \in DOMAIN all_results =>
                    all_results[systems[k]] = ExpectedEntry(k)

C7_Witness ==
    /\ mpc = "done"
    /\ Len(systems) = 3
    /\ calls[1].api = "raised"
    /\ calls[1].local = LocalRaises
    /\ calls[2].rows # <<>>
    /\ LocalFound(calls[3].local)
    /\ DOMAIN all_results = {systems[2], systems[3]}

\* C8: every vocabulary of the returned map has at most
\* max_results_per_system rows, whatever the adapter returned.
C8_RowsCapped ==
    \A s \in DOMAIN all_results : Len(all_results[s]) <= max_results_per_system

\* C9: the returned map has keys only for requested vocabularies that
\* produced a row: no key maps to an empty list, and a vocabulary for which
\* the external lookup and the local matcher both gave nothing is absent.
C9_NoEmptyEntries ==
    /\ \A s \in DOMAIN all_results :
         /\ all_results[s] # <<>>
         /\ \E k \in DOMAIN systems : systems[k] = s
    /\ \A k \in Processed :
         (calls[k].rows = <<>> /\ ~LocalFound(calls[k].local)) =>
             systems[k] \notin DOMAIN all_results

C9_Witness ==
    /\ mpc = "done"
    /\ \E k \in Processed :
         /\ calls[k].api = "empty"
         /\ calls[k].local.kind = "dict"
         /\ ~calls[k].local.found
         /\ systems[k] \notin DOMAIN all_results
    /\ \E k \in Processed : systems[k] \in DOMAIN all_results

\* C10: the rows of every vocabulary of the returned map are in descending
\* order of confidence, for any order in which the adapter returned them.
C10_RowsDescending ==
    \A s \in DOMAIN all_results :
        \A a, b \in 1..Len(all_results[s]) :
            a < b => all_results[s][a].confidence >= all_results[s][b].confidence

\* The rows map_term holds: those of the returned map and those of the
\* system being processed
HeldRows ==
    UNION {Range(all_results[s]) : s \in DOMAIN all_results} \cup Range(system_results)

\* The values find_fuzzy_match returned to the dispatcher
MatcherReturns ==
    {calls[k].local : k \in {n \in DOMAIN calls : /\ calls[n].local.kind = "dict"
                                                  /\ calls[n].local.found
                                                  /\ ~calls[n].local.has_confidence}}

C15_EmptyTermEmptyResult ==
    term = <<>> => (mpc # "raised" /\ all_results = <<>>)

\* Loop positions of rxnorm whose iteration has ended with an external service
RxnormProcessed == {k \in Processed : systems[k] = "rxnorm" /\ external_service}

\* C26: for rxnorm, the Clinical Tables adapter (table rxterms) is called
\* exactly when the RxNorm REST adapter raised or returned nothing; when
\* both adapters raise, no exception leaves the branch, the API rows are
\* empty and the local matcher is consulted.
C26_RxtermsRetry ==
    /\ mpc # "raised"
    /\ \A k \in RxnormProcessed :
         /\ calls[k].rxterms # "not_called" <=> calls[k].api \in {"raised", "empty"}
         /\ (calls[k].api = "raised" /\ calls[k].rxterms = "raised") =>
                /\ calls[k].rows = <<>>
                /\ LocalConsulted(k)

C26_Witness ==
    /\ mpc = "done"
    /\ \E k \in RxnormProcessed :
         /\ calls[k].api = "raised"
         /\ calls[k].rxterms = "raised"
         /\ LocalFound(calls[k].local)
         /\ all_results[systems[k]] = <<LocalRow(calls[k].local, systems[k])>>
    /\ \E k \in Processed : systems[k] # "rxnorm" /\ calls[k].rows # <<>>

\* C30: in the map map_term holds and returns, the rows of a vocabulary
\* are either all rows of the external lookup (match type "api", the local
\* matcher not consulted for the vocabulary) or exactly one row of the local
\* matcher (source "local_database"); the two are never mixed.
C30_RowsHomogeneous ==
    \A k \in Processed :
        systems[k] \in DOMAIN all_results =>
            LET rows == all_results[systems[k]]
            IN \/ /\ \A n \in DOMAIN rows : rows[n].match_type = "api"
                  /\ ~LocalConsulted(k)
               \/ /\ Len(rows) = 1
                  /\ rows[1].source = "local_database"
                  /\ LocalConsulted(k)

C30_Witness ==
    /\ mpc = "done"
    /\ \E k \in Processed :
         /\ systems[k] \in DOMAIN all_results
         /\ Len(all_results[systems[k]]) = MaxApiRows
         /\ all_results[systems[k]][1].match_type = "api"
    /\ \E k \in Processed :
         /\ systems[k] \in DOMAIN all_results
         /\ calls[k].api = "empty"
         /\ all_results[systems[k]][1].source = "local_database"

\* ------------------------------------------------------------------------
\* ThreadSafeTerminologyMapper._get_mapper (thread_safe_mapper.py, lines
\* 46-57) under worker threads.  Each thread runs map_term or
\* get_systems_info calls, each of which starts with _get_mapper; a step is
\* one line of _get_mapper.  The TerminologyMapper built at line 56 owns the
\* matcher of its thread, whose synonym store is loaded from the synonyms
\* file when it is constructed.
\* ------------------------------------------------------------------------
NumThreads == 2
MaxCalls == 2

Threads == 1..NumThreads
NoThread == 0
NoMapper == 0

\* hasattr(self._local, 'mapper') as the thread sees it
hasattr(t) == local_mapper[t] # NoMapper

\* Instances get the numbers 1, 2, ... in the order they are constructed
RECURSIVE Constructed(_)
Constructed(ts) ==
    IF ts = {} THEN 0
    ELSE LET t == CHOOSE x \in ts : TRUE IN Len(th_created[t]) + Constructed(ts \ {t})

\* Variant: the construction is not guarded by the lock.
ConstructionLock_off == FALSE

\* Line 53: with self._lock
ConstructionLock == TRUE

InitThreads ==
    /\ th_pc = [t \in Threads |-> "idle"]
    /\ th_calls = [t \in Threads |-> 0]
    /\ lock = NoThread
    /\ local_mapper = [t \in Threads |-> NoMapper]
    /\ th_created = [t \in Threads |-> <<>>]
    /\ th_returned = [t \in Threads |-> <<>>]
    /\ mapper_synonyms = [t \in Threads |-> <<>>]
    /\ th_file = NoFile
    /\ th_add = NoOp
    /\ BatchIdle
    /\ MapIdle
    /\ MatcherIdle
    /\ WritersIdle

\* A request served by thread t reaches `mapper = self._get_mapper()`
EnterGetMapper(t) ==
    /\ th_pc[t] = "idle"
    /\ th_calls[t] < MaxCalls
    /\ th_calls' = [th_calls EXCEPT ![t] = @ + 1]
    /\ th_pc' = [th_pc EXCEPT ![t] = "line52"]
    /\ UNCHANGED <<lock, local_mapper, th_created, th_returned, mapper_synonyms, th_file,
                   th_add, batchVars, mapVars, matcherVars, writerVars>>

\* Line 52: if not hasattr(self._local, 'mapper')
Line52(t) ==
    /\ th_pc[t] = "line52"
    /\ th_pc' = [th_pc EXCEPT ![t] = IF hasattr(t) THEN "line57" ELSE "line53"]
    /\ UNCHANGED <<th_calls, lock, local_mapper, th_created, th_returned, mapper_synonyms,
                   th_file, th_add, batchVars, mapVars, matcherVars, writerVars>>

\* Line 53: the lock is acquired, once it is free
Line53(t) ==
    /\ th_pc[t] = "line53"
    /\ ConstructionLock => lock = NoThread
    /\ lock' = t
    /\ th_pc' = [th_pc EXCEPT ![t] = "line54"]
    /\ UNCHANGED <<th_calls, local_mapper, th_created, th_returned, mapper_synonyms,
                   th_file, th_add, batchVars, mapVars, matcherVars, writerVars>>

\* Line 54: the second test; TerminologyMapper() starts if it still fails
Line54(t) ==
    /\ th_pc[t] = "line54"
    /\ th_pc' = [th_pc EXCEPT ![t] = IF hasattr(t) THEN "unlock" ELSE "line56"]
    /\ UNCHANGED <<th_calls, lock, local_mapper, th_created, th_returned, mapper_synonyms,
                   th_file, th_add, batchVars, mapVars, matcherVars, writerVars>>

\* Line 56: TerminologyMapper() ends: the instance, whose matcher has loaded
\* the synonyms file, is assigned to self._local.mapper; or the
\* constructor raises and nothing is assigned.
Line56(t) ==
    /\ th_pc[t] = "line56"
    /\ \/ /\ local_mapper' = [local_mapper EXCEPT ![t] = Constructed(Threads) + 1]
          /\ th_created' = [th_created EXCEPT ![t] = Append(@, Constructed(Threads) + 1)]
          /\ mapper_synonyms' = [mapper_synonyms EXCEPT ![t] = load_synonyms(TRUE, th_file)]
          /\ th_pc' = [th_pc EXCEPT ![t] = "unlock"]
       \/ /\ th_pc' = [th_pc EXCEPT ![t] = "unlock_raise"]
          /\ UNCHANGED <<local_mapper, th_created, mapper_synonyms>>
    /\ UNCHANGED <<th_calls, lock, th_returned, th_file, th_add, batchVars, mapVars,
                   matcherVars, writerVars>>

\* The end of the with block: the lock is released; an exception of the
\* constructor leaves _get_mapper
Unlock(t) ==
    /\ th_pc[t] \in {"unlock", "unlock_raise"}
    /\ lock' = IF lock = t THEN NoThread ELSE lock
    /\ th_pc' = [th_pc EXCEPT ![t] = IF th_pc[t] = "unlock" THEN "line57" ELSE "idle"]
    /\ UNCHANGED <<th_calls, local_mapper, th_created, th_returned, mapper_synonyms,
                   th_file, th_add, batchVars, mapVars, matcherVars, writerVars>>

\* Line 57: return self._local.mapper
Line57(t) ==
    /\ th_pc[t] = "line57"
    /\ th_returned' = [th_returned EXCEPT ![t] = Append(@, local_mapper[t])]
    /\ th_pc' = [th_pc EXCEPT ![t] = "idle"]
    /\ UNCHANGED <<th_calls, lock, local_mapper, th_created, mapper_synonyms, th_file,
                   th_add, batchVars, mapVars, matcherVars, writerVars>>

\* add_synonym on the matcher of thread t's mapper, the file being written
ThreadAddArgs == [term |-> <<"A", "s", "t", "h", "m", "a">>, synonyms |-> {<<"R", "A", "D">>}]

AddSynonymOnThread(t) ==
    /\ th_pc[t] = "idle"
    /\ hasattr(t)
    /\ th_add = NoOp
    /\ LET answer == add_synonym(mapper_synonyms[t], ThreadAddArgs.term,
                                 ThreadAddArgs.synonyms)
       IN /\ mapper_synonyms' = [mapper_synonyms EXCEPT ![t] = answer.synonyms]
          /\ th_file' = IF answer.saved
                        THEN save_synonyms(answer.synonyms, TRUE, th_file, "ok")
                        ELSE th_file
          /\ th_add' = [op |-> "add_synonym", term |-> ThreadAddArgs.term,
                        synonyms |-> ThreadAddArgs.synonyms, thread |-> t,
                        result |-> answer.result]
    /\ UNCHANGED <<th_pc, th_calls, lock, local_mapper, th_created, th_returned,
                   batchVars, mapVars, matcherVars, writerVars>>

NextThreads ==
    \E t \in Threads :
        \/ EnterGetMapper(t)
        \/ Line52(t)
        \/ Line53(t)
        \/ Line54(t)
        \/ Line56(t)
        \/ Unlock(t)
        \/ Line57(t)
        \/ AddSynonymOnThread(t)

SpecThreads == InitThreads /\ [][NextThreads]_vars

\* ------------------------------------------------------------------------
\* Properties of _get_mapper and of the per-thread matchers (checked under
\* SpecThreads)
\* ------------------------------------------------------------------------
\* The codes the exact probe of thread t's matcher can give for a term
ExactCodes(t, query) ==
    {MapperIndex["snomed"][v].code :
        v \in generate_term_variations(clean_term(query), mapper_synonyms[t])
                 \cap DOMAIN MapperIndex["snomed"]}

\* C17: once add_synonym(t, S) has completed, a query served by any thread
\* that has a mapper, built before or after the call, generates its
\* variations from the updated store: the members of the cluster are among
\* the variations of each other and a member of S resolves to the code of t.
C17_AddSeenByEveryThread ==
    th_add.op = "add_synonym" =>
        \A t \in Threads :
            hasattr(t) =>
                LET cluster == {lower(th_add.term)} \cup {lower(s) : s \in th_add.synonyms}
                IN /\ \A s \in cluster :
                        cluster \subseteq generate_term_variations(s, mapper_synonyms[t])
                   /\ \A s \in th_add.synonyms :
                        ExactCodes(t, s) = ExactCodes(t, th_add.term)

\* C18: at most one TerminologyMapper is ever constructed in a thread, every
\* return of _get_mapper in a thread gives that one instance, and no two
\* constructions are in progress at the same time.
C18_OneMapperPerThread ==
    /\ Cardinality({t \in Threads : th_pc[t] = "line56"}) <= 1
    /\ \A t \in Threads :
         /\ Len(th_created[t]) <= 1
         /\ \A k \in DOMAIN th_returned[t] :
               /\ Len(th_created[t]) = 1
               /\ th_returned[t][k] = th_created[t][1]
    /\ \A t, u \in Threads :
         (t # u /\ hasattr(t) /\ hasattr(u)) => local_mapper[t] # local_mapper[u]

C18_Witness ==
    /\ Len(th_returned[1]) = 2
    /\ th_pc[2] = "line56"
    /\ lock = 2
    /\ th_calls[2] = 2

\* ------------------------------------------------------------------------
\* FuzzyMatcher.add_synonym (fuzzy_matcher.py, lines 788-842) called by
\* several threads on one matcher, each with a term of its own that is in
\* no cluster.  add_synonym takes no lock; a step is one statement, between
\* which the interpreter may switch threads.  The matcher's store and file
\* are the variables synonyms and synonyms_file.
\* ------------------------------------------------------------------------
\* The arguments of thread w: term 't<w>' with the synonym 's<w>'
WriterArgs(w) == [term |-> <<"t", ToString(w)>>, synonyms |-> {<<"s", ToString(w)>>}]

\* Line 801: syn_set
WriterSynSet(w) ==
    {lower(WriterArgs(w).term)} \cup {lower(x) : x \in WriterArgs(w).synonyms}

\* The synonyms files whose clusters are numbered from 1 without a gap, so
\* that calls made one after the other get keys of their own
WriterFiles ==
    {file \in SynonymFiles :
        \A n \in 1..Cardinality(DOMAIN load_synonyms(TRUE, file)) :
            ("syn_set_" \o ToString(n)) \in DOMAIN load_synonyms(TRUE, file)}

InitWriters ==
    /\ w_pc = [w \in Threads |-> "idle"]
    /\ w_key = [w \in Threads |-> ""]
    /\ w_result = [w \in Threads |-> <<>>]
    /\ synonyms_path = TRUE
    /\ synonyms_file \in WriterFiles
    /\ synonyms = load_synonyms(synonyms_path, synonyms_file)
    /\ initialized = FALSE
    /\ term_index = <<>>
    /\ term_lists = <<>>
    /\ fm_op = NoOp
    /\ fm_rerun = NoOp
    /\ fm_count = 0
    /\ fm_builds = <<>>
    /\ BatchIdle
    /\ MapIdle
    /\ ThreadsIdle

\* Lines 799-809: the loop over the clusters; a cluster that holds the term
\* leads to update() on a list, whose AttributeError line 825 turns into
\* return False
Line804(w) ==
    /\ w_pc[w] = "idle"
    /\ IF \E key \in DOMAIN synonyms : lower(WriterArgs(w).term) \in Range(synonyms[key])
       THEN /\ w_pc' = [w_pc EXCEPT ![w] = "done"]
            /\ w_result' = [w_result EXCEPT ![w] = <<FALSE>>]
       ELSE /\ w_pc' = [w_pc EXCEPT ![w] = "line817"]
            /\ UNCHANGED w_result
    /\ UNCHANGED <<w_key, batchVars, mapVars, matcherVars, threadVars>>

\* Line 817: new_key = f"syn_set_{len(self.synonyms) + 1}"
Line817(w) ==
    /\ w_pc[w] = "line817"
    /\ w_key' = [w_key EXCEPT ![w] = new_key(synonyms)]
    /\ w_pc' = [w_pc EXCEPT ![w] = "line818"]
    /\ UNCHANGED <<w_result, batchVars, mapVars, matcherVars, threadVars>>

\* Line 818: self.synonyms[new_key] = list(syn_set)
Line818(w) ==
    /\ w_pc[w] = "line818"
    /\ synonyms' = [key \in DOMAIN synonyms \cup {w_key[w]} |->
                       IF key = w_key[w] THEN list(WriterSynSet(w)) ELSE synonyms[key]]
    /\ w_pc' = [w_pc EXCEPT ![w] = "line821"]
    /\ UNCHANGED <<w_key, w_result, synonyms_path, synonyms_file, initialized, term_index,
                   term_lists, fm_op, fm_rerun, fm_count, fm_builds, batchVars, mapVars,
                   threadVars>>

\* Line 821: _save_synonyms dumps the store as it is now
Line821(w) ==
    /\ w_pc[w] = "line821"
    /\ synonyms_file' = save_synonyms(synonyms, synonyms_path, synonyms_file, "ok")
    /\ w_pc' = [w_pc EXCEPT ![w] = "line822"]
    /\ UNCHANGED <<w_key, w_result, synonyms_path, synonyms, initialized, term_index,
                   term_lists, fm_op, fm_rerun, fm_count, fm_builds, batchVars, mapVars,
                   threadVars>>

\* Line 822: return True
Line822(w) ==
    /\ w_pc[w] = "line822"
    /\ w_result' = [w_result EXCEPT ![w] = <<TRUE>>]
    /\ w_pc' = [w_pc EXCEPT ![w] = "done"]
    /\ UNCHANGED <<w_key, batchVars, mapVars, matcherVars, threadVars>>

NextWriters ==
    \E w \in Threads :
        \/ Line804(w)
        \/ Line817(w)
        \/ Line818(w)
        \/ Line821(w)
        \/ Line822(w)

SpecWriters == InitWriters /\ [][NextWriters]_vars

\* Whether a store holds the cluster thread w asked for
Holds(syns, w) == \E key \in DOMAIN syns : WriterSynSet(w) \subseteq Range(syns[key])

\* C29: when concurrent add_synonym calls for terms that are in no cluster
\* have all completed, the cluster of each is in the store in memory and in
\* the synonyms file, in whatever order their steps were taken; no call
\* overwrites the cluster of another.
C29_ConcurrentAddsBothKept ==
    (\A w \in Threads : w_pc[w] = "done") =>
        \A w \in Threads :
            /\ w_result[w] = <<TRUE>>
            /\ Holds(synonyms, w)
            /\ synonyms_file.kind = "json"
            /\ Holds(synonyms_file.data, w)

====
